---------------------------- MODULE Spec2Model ----------------------------
(***************************************************************************)
(* A model of the WhatsApp conversation analyzer: the chat index           *)
(* (js/dataModel.js), the statistics engine (js/statistics.js,             *)
(* js/utils.js), the transcript parser (js/parser.js) and the lexical      *)
(* analyzer (js/wordAnalysis.js).                                          *)
(*                                                                         *)
(* Instants.  In the index and the statistics a Date is modelled by its    *)
(* getTime() value, in milliseconds counted from a base instant that is    *)
(* local midnight of calendar day 0.  The local calendar (toDateString,    *)
(* new Date(dateString), getHours) depends on the time zone of the host:   *)
(* tz = "fixed" is a zone with a constant UTC offset, tz = "dst" a zone    *)
(* that moves its clocks forward by one hour at 02:00 of day DstDay.       *)
(***************************************************************************)
EXTENDS Integers, Sequences, FiniteSets, TLC

VARIABLES
  tz,              \* time zone of the host: "fixed" or "dst"
  scorer,          \* whether window.Sentiment is available
  chat,            \* the ChatData instance (NoChat before it is constructed)
  runs,            \* number of calculateAllStatistics calls on chat
  attrib,          \* history: the (message, response) pairs that produced samples
  upload,          \* the parsed messages handed to the last loadMessages call
  loads,           \* number of loadMessages calls on chat
  out,             \* results of the read-only analyzers shown by the report
  streakInfo,      \* result of calculateStreaks
  sentiment,       \* result of analyzeSentiment, with the participant asked for
  fileContent,     \* parser: the transcript, a string
  lineNo,          \* parser: the loop index i (0-based) of parseWhatsAppChat
  currentMessage,  \* parser: the in-progress message, or Null
  parsedMessages,  \* parser: the array `messages`, the messages pushed so far
  parseState,      \* parser: "idle", "start", "scanning", "returned" or "threw"
  parseError,      \* parser: the message of the Error thrown, "" when none
  origin,          \* history: the tuple a one-line transcript was built from
  wordInput,       \* lexical analyzer: the messages and the stop-word flag
  topWords,        \* lexical analyzer: result of analyzeWordFrequency
  currentDateFilter, \* app: the date filter {from, to}, or Null
  shown,           \* app: the ChatData last handed to renderStats
  handlerResult,   \* app: how the last handler ended
  isProcessing,    \* app: the flag handleFile sets while it works
  flights,         \* app: the handleFile calls suspended at an await
  screen           \* app: the screen switchScreen shows, upload or app

envVars == <<tz, scorer>>
indexVars == <<chat, runs, attrib, upload, loads>>
viewVars == <<out, streakInfo, sentiment>>
parserVars == <<fileContent, lineNo, currentMessage, parsedMessages, parseState,
               parseError, origin>>
lexVars == <<wordInput, topWords>>
appVars == <<currentDateFilter, shown, handlerResult>>
uploadVars == <<isProcessing, flights, screen>>
vars == <<envVars, indexVars, viewVars, parserVars, lexVars, appVars, uploadVars>>

NoChat == [kind |-> "none"]
NoOut == [kind |-> "none"]
Null == [kind |-> "null"]

(***************************************************************************)
(* Generic helpers                                                         *)
(***************************************************************************)
Min(S) == CHOOSE x \in S : \A y \in S : x <= y
Max(S) == CHOOSE x \in S : \A y \in S : x >= y
Abs(x) == IF x < 0 THEN -x ELSE x

RECURSIVE SumSeq(_)
SumSeq(s) == IF s = <<>> THEN 0 ELSE s[1] + SumSeq(Tail(s))

(***************************************************************************)
(* js/utils.js                                                             *)
(***************************************************************************)
Second == 1000
Hour == 60 * 60 * 1000
Day == 24 * 60 * 60 * 1000

\* const twoHours = 2 * 60 * 60 * 1000
twoHours == 2 * 60 * 60 * 1000
\* const twentyFourHours = 24 * 60 * 60 * 1000
twentyFourHours == 24 * 60 * 60 * 1000

isNewConversation_Inclusive(milliseconds) == milliseconds >= twoHours
isNewConversation(milliseconds) == milliseconds > twoHours

isValidResponseTime_Inclusive(milliseconds) == milliseconds <= twentyFourHours
isValidResponseTime(milliseconds) == milliseconds < twentyFourHours

(***************************************************************************)
(* The host's local calendar                                               *)
(***************************************************************************)
DstDay == 2

\* getTime() of local midnight of calendar day d: new Date(dateString)
LocalMidnight(zone, d) ==
  IF zone = "dst" /\ d > DstDay THEN d * Day - Hour ELSE d * Day

\* Date.prototype.toDateString: the local calendar day of instant t
ToDateString(zone, t) ==
  IF zone = "dst" /\ t >= DstDay * Day + 2 * Hour THEN (t + Hour) \div Day
  ELSE t \div Day

\* Date.prototype.getHours: the local hour of instant t
GetHours(zone, t) ==
  IF zone = "dst" /\ t >= DstDay * Day + 2 * Hour THEN ((t + Hour) % Day) \div Hour
  ELSE (t % Day) \div Hour

\* Weekday (0 = Sunday) of calendar day 0
BaseWeekday == 1

\* Date.prototype.getDay
GetDay(zone, t) == (ToDateString(zone, t) + BaseWeekday) % 7

(***************************************************************************)
(* js/dataModel.js: ParticipantData and ChatData                           *)
(***************************************************************************)
\* A message of the index.  Its content is a text the index never looks
\* into except through words = countWords(content), chars = content.length
\* and score, the value the external sentiment scorer returns for it.
FullMessage(t, p, sys, media, text, w, n, sc) ==
  [timestamp |-> t, participant |-> p, isSystem |-> sys, isMedia |-> media,
   content |-> text, words |-> w, chars |-> n, score |-> sc]

Message(t, p, sys, media, w) == FullMessage(t, p, sys, media, "text", w, 5 * w, 0)

\* ParticipantData constructor
ParticipantData(name) ==
  [name |-> name, messageCount |-> 0, wordCount |-> 0, responseTimes |-> <<>>,
   conversationsStarted |-> 0, messages |-> <<>>, burstCount |-> 0]

\* An addMessage that counts text messages only
addMessage_TextOnly(p, message) ==
  [p EXCEPT !.messageCount = IF message.isMedia THEN @ ELSE @ + 1,
            !.messages = Append(@, message),
            !.wordCount = IF message.isMedia THEN @ ELSE @ + message.words]

\* ParticipantData.addMessage
addMessage(p, message) ==
  [p EXCEPT !.messageCount = @ + 1,
            !.messages = Append(@, message),
            !.wordCount = IF message.isMedia THEN @ ELSE @ + message.words]

\* ParticipantData.addResponseTime
addResponseTime(p, milliseconds) ==
  [p EXCEPT !.responseTimes = Append(@, milliseconds)]

\* ChatData constructor
\* messagesByHour and messagesByDay are Maps with the fixed keys 0..23 and
\* 0..6; messagesByDate and cache are Maps in insertion order: sequences of
\* [key, messages] and of [key, value].
NewChatData ==
  [kind |-> "chat", messages |-> <<>>, participants |-> <<>>,
   metadata |-> [startDate |-> -1, endDate |-> -1, totalMessages |-> 0,
                 totalParticipants |-> 0],
   messagesByHour |-> [h \in 0..23 |-> <<>>],
   messagesByDay |-> [d \in 0..6 |-> <<>>],
   messagesByDate |-> <<>>,
   cache |-> <<>>]

\* ChatData.participants is a Map in insertion order: a sequence of records.
\* Index of the record named name, 0 when the Map has no such key.
ParticipantIndex(parts, name) ==
  IF \E i \in 1..Len(parts) : parts[i].name = name
  THEN CHOOSE i \in 1..Len(parts) : parts[i].name = name
  ELSE 0

\* ChatData.getParticipant: the record, or null (0)
getParticipant(c, name) == ParticipantIndex(c.participants, name)

\* ChatData.getAllParticipants
getAllParticipants(c) == c.participants

\* The forEach of loadMessages: get or create the participant, addMessage
RECURSIVE ProcessMessages(_, _)
ProcessMessages(parts, ms) ==
  IF ms = <<>> THEN parts
  ELSE LET m == ms[1]
           withP == IF ParticipantIndex(parts, m.participant) = 0
                    THEN Append(parts, ParticipantData(m.participant))
                    ELSE parts
           i == ParticipantIndex(withP, m.participant)
       IN ProcessMessages([withP EXCEPT ![i] = addMessage(@, m)], Tail(ms))

NotSystem_All(m) == TRUE
NotSystem(m) == ~m.isSystem

\* Position of key in an insertion-ordered Map, 0 when the Map has no such key
KeyIndex(entries, key) ==
  IF \E i \in 1..Len(entries) : entries[i].key = key
  THEN CHOOSE i \in 1..Len(entries) : entries[i].key = key
  ELSE 0

\* The forEach of loadMessages: index by date, creating the bucket of a new day
RECURSIVE IndexByDate(_, _, _)
IndexByDate(zone, buckets, ms) ==
  IF ms = <<>> THEN buckets
  ELSE LET dateKey == ToDateString(zone, ms[1].timestamp)
           withK == IF KeyIndex(buckets, dateKey) = 0
                    THEN Append(buckets, [key |-> dateKey, messages |-> <<>>])
                    ELSE buckets
           i == KeyIndex(withK, dateKey)
       IN IndexByDate(zone, [withK EXCEPT ![i].messages = Append(@, ms[1])], Tail(ms))

\* ChatData.loadMessages
loadMessages(zone, c, messages) ==
  LET kept == SelectSeq(messages, NotSystem)
      stamps == {kept[i].timestamp : i \in 1..Len(kept)}
      meta == IF Len(kept) > 0
              THEN [c.metadata EXCEPT !.startDate = Min(stamps),
                                      !.endDate = Max(stamps),
                                      !.totalMessages = Len(kept)]
              ELSE c.metadata
      parts == ProcessMessages(c.participants, kept)
  IN [c EXCEPT !.messages = kept,
               !.participants = parts,
               !.metadata = [meta EXCEPT !.totalParticipants = Len(parts)],
               !.messagesByHour =
                  [h \in 0..23 |->
                     @[h] \o SelectSeq(kept, LAMBDA m : GetHours(zone, m.timestamp) = h)],
               !.messagesByDay =
                  [d \in 0..6 |->
                     @[d] \o SelectSeq(kept, LAMBDA m : GetDay(zone, m.timestamp) = d)],
               !.messagesByDate = IndexByDate(zone, @, kept)]

(***************************************************************************)
(* js/statistics.js                                                        *)
(***************************************************************************)
\* The array as it was given
SortByTime_AsGiven(s) == s

\* [...messages].sort((a, b) => a.timestamp - b.timestamp): a stable sort
RECURSIVE SortByTime(_)
SortByTime(s) ==
  IF s = <<>> THEN <<>>
  ELSE LET n == Len(s)
           rest == SortByTime(SubSeq(s, 1, n - 1))
           m == s[n]
           k == Cardinality({i \in 1..Len(rest) : rest[i].timestamp <= m.timestamp})
       IN SubSeq(rest, 1, k) \o <<m>> \o SubSeq(rest, k + 1, Len(rest))

\* The inner loop of calculateResponseTimes: the first j > i whose participant
\* differs from message i's, 0 when the loop ends without finding one.
NextDifferent_Adjacent(sorted, i) ==
  IF i + 1 <= Len(sorted) /\ sorted[i + 1].participant # sorted[i].participant
  THEN i + 1 ELSE 0
NextDifferent(sorted, i) ==
  LET later == {j \in (i + 1)..Len(sorted) :
                  sorted[j].participant # sorted[i].participant}
  IN IF later = {} THEN 0 ELSE Min(later)

\* The samples calculateResponseTimes records, in the order it records them:
\* for message i the pair (i, j) with timeDiff, when isValidResponseTime holds
\* and the responder has a record.
RECURSIVE ResponseSamples(_, _, _)
ResponseSamples(c, sorted, i) ==
  IF i > Len(sorted) - 1 THEN <<>>
  ELSE LET j == NextDifferent(sorted, i)
           timeDiff == sorted[j].timestamp - sorted[i].timestamp
       IN (IF j # 0 /\ isValidResponseTime(timeDiff)
              /\ getParticipant(c, sorted[j].participant) # 0
           THEN <<[author |-> sorted[i].participant,
                   responder |-> sorted[j].participant,
                   timeDiff |-> timeDiff]>>
           ELSE <<>>) \o ResponseSamples(c, sorted, i + 1)

RECURSIVE ApplySamples(_, _)
ApplySamples(parts, samples) ==
  IF samples = <<>> THEN parts
  ELSE LET i == ParticipantIndex(parts, samples[1].responder)
       IN ApplySamples([parts EXCEPT ![i] = addResponseTime(@, samples[1].timeDiff)],
                       Tail(samples))

\* calculateResponseTimes(messages, chatData)
calculateResponseTimes(messages, c) ==
  [c EXCEPT !.participants =
     ApplySamples(@, ResponseSamples(c, SortByTime(messages), 1))]

\* The positions of the sorted sequence at which calculateConversationStarters
\* increments conversationsStarted: the first, and each whose gap from the
\* previous message isNewConversation.
StarterPositions(sorted) ==
  {i \in 1..Len(sorted) :
     i = 1 \/ isNewConversation(sorted[i].timestamp - sorted[i - 1].timestamp)}

RECURSIVE BumpStarters(_, _, _)
BumpStarters(parts, sorted, i) ==
  IF i > Len(sorted) THEN parts
  ELSE LET k == ParticipantIndex(parts, sorted[i].participant)
       IN BumpStarters(
            IF i \in StarterPositions(sorted) /\ k # 0
            THEN [parts EXCEPT ![k].conversationsStarted = @ + 1]
            ELSE parts,
            sorted, i + 1)

\* calculateConversationStarters(messages, chatData)
calculateConversationStarters(messages, c) ==
  [c EXCEPT !.participants = BumpStarters(@, SortByTime(messages), 1)]

\* The forEach body of calculateMessageBursts at message i: currentParticipant
\* is the participant of message i - 1 (null at the first message), and the
\* local burstCount is >= 1 exactly when msg.participant === currentParticipant
IsBurst_SameConversation(sorted, i) ==
  /\ i > 1
  /\ sorted[i].participant = sorted[i - 1].participant
  /\ ~isNewConversation(sorted[i].timestamp - sorted[i - 1].timestamp)
IsBurst(sorted, i) == i > 1 /\ sorted[i].participant = sorted[i - 1].participant

RECURSIVE BumpBursts(_, _, _)
BumpBursts(parts, sorted, i) ==
  IF i > Len(sorted) THEN parts
  ELSE LET k == ParticipantIndex(parts, sorted[i].participant)
           burst == IsBurst(sorted, i)
       IN BumpBursts(
            IF burst /\ k # 0 THEN [parts EXCEPT ![k].burstCount = @ + 1] ELSE parts,
            sorted, i + 1)

\* calculateMessageBursts(messages, chatData)
calculateMessageBursts(messages, c) ==
  [c EXCEPT !.participants = BumpBursts(@, SortByTime(messages), 1)]

\* calculateAllStatistics(chatData)
calculateAllStatistics(c) ==
  LET c1 == calculateResponseTimes(c.messages, c)
      c2 == calculateConversationStarters(c1.messages, c1)
  IN calculateMessageBursts(c2.messages, c2)


\* The conversations analyzeConversationLengths builds: the sorted sequence
\* split before every message that is first or whose gap from the previous
\* message isNewConversation.  acc = [done, cur] are `conversations` and
\* `currentConvo`.
RECURSIVE SplitConversations(_, _, _)
SplitConversations(sorted, i, acc) ==
  IF i > Len(sorted)
  THEN (IF Len(acc.cur) > 0 THEN Append(acc.done, acc.cur) ELSE acc.done)
  ELSE LET msg == sorted[i]
           same == i > 1 /\ ~isNewConversation(msg.timestamp - sorted[i - 1].timestamp)
       IN SplitConversations(sorted, i + 1,
            IF same THEN [acc EXCEPT !.cur = Append(@, msg)]
            ELSE [done |-> IF Len(acc.cur) > 0 THEN Append(acc.done, acc.cur)
                           ELSE acc.done,
                  cur |-> <<msg>>])

\* Turns of one conversation: one per change of the speaking participant
CountTurns(convo) ==
  Cardinality({i \in 1..Len(convo) :
                 i = 1 \/ convo[i].participant # convo[i - 1].participant})

\* analyzeConversationLengths(chatData); average is the pair sum / count
analyzeConversationLengths(c) ==
  LET conversations == SplitConversations(SortByTime(c.messages), 1,
                                          [done |-> <<>>, cur |-> <<>>])
      lengths == [k \in 1..Len(conversations) |-> CountTurns(conversations[k])]
      n == Len(lengths)
  IN [kind |-> "conversationLengths",
      lengths |-> lengths,
      distribution |->
        [short |-> Cardinality({k \in 1..n : lengths[k] <= 5}),
         medium |-> Cardinality({k \in 1..n : lengths[k] > 5 /\ lengths[k] <= 15}),
         long |-> Cardinality({k \in 1..n : lengths[k] > 15})],
      average |-> IF n > 0 THEN <<SumSeq(lengths), n>> ELSE <<0, 1>>,
      total |-> Len(conversations),
      longest |-> IF n > 0 THEN Max({lengths[k] : k \in 1..n}) ELSE 0]

\* The positions getConversationInitiatorPatterns counts as starters
InitiatorPositions(sorted) ==
  {i \in 1..Len(sorted) :
     i = 1 \/ isNewConversation(sorted[i].timestamp - sorted[i - 1].timestamp)}

\* getConversationInitiatorPatterns(chatData): for every participant record,
\* byHour and byDay count the starters of that participant.
getConversationInitiatorPatterns(zone, c) ==
  LET messages == SortByTime(c.messages)
      parts == getAllParticipants(c)
      starts(name) == {i \in InitiatorPositions(messages) :
                         messages[i].participant = name}
  IN [kind |-> "initiatorPatterns",
      patterns |->
        [k \in 1..Len(parts) |->
           [name |-> parts[k].name,
            byHour |-> [h \in 0..23 |->
                          Cardinality({i \in starts(parts[k].name) :
                                         GetHours(zone, messages[i].timestamp) = h})],
            byDay |-> [d \in 0..6 |->
                         Cardinality({i \in starts(parts[k].name) :
                                        GetDay(zone, messages[i].timestamp) = d})]]]]

\* The loop of calculateStreaks over sortedDates (getTime() of local midnights).
\* st = [currentStreak, longestStreak, first, streaks]
RECURSIVE StreakLoop(_, _, _)
StreakLoop(sortedDates, i, st) ==
  IF i > Len(sortedDates) THEN st
  ELSE LET daysDiff == (sortedDates[i] - sortedDates[i - 1]) \div Day
       IN StreakLoop(sortedDates, i + 1,
            IF daysDiff = 1
            THEN [st EXCEPT !.currentStreak = @ + 1]
            ELSE [currentStreak |-> 1,
                  longestStreak |-> Max({st.longestStreak, st.currentStreak}),
                  first |-> sortedDates[i],
                  streaks |-> IF st.currentStreak >= 2
                              THEN Append(st.streaks,
                                          [length |-> st.currentStreak,
                                           startDate |-> st.first,
                                           endDate |-> sortedDates[i - 1]])
                              ELSE st.streaks])

RECURSIVE SortedSeqOf(_)
SortedSeqOf(S) == IF S = {} THEN <<>> ELSE <<Min(S)>> \o SortedSeqOf(S \ {Min(S)})

\* calculateStreaks(chatData); today is local midnight of the day of the call
calculateStreaks(zone, c, today) ==
  IF Len(c.messages) = 0
  THEN [kind |-> "streaks", currentStreak |-> 0, longestStreak |-> 0,
        streaks |-> <<>>]
  ELSE LET datesWithMessages ==
             {ToDateString(zone, c.messages[i].timestamp) : i \in 1..Len(c.messages)}
           sortedDates ==
             SortedSeqOf({LocalMidnight(zone, d) : d \in datesWithMessages})
           n == Len(sortedDates)
           st == StreakLoop(sortedDates, 2,
                            [currentStreak |-> 1, longestStreak |-> 1,
                             first |-> sortedDates[1], streaks |-> <<>>])
           streaks == IF st.currentStreak >= 2
                      THEN Append(st.streaks,
                                  [length |-> st.currentStreak,
                                   startDate |-> st.first,
                                   endDate |-> sortedDates[n]])
                      ELSE st.streaks
           daysSinceLastMessage == (today - sortedDates[n]) \div Day
       IN [kind |-> "streaks",
           currentStreak |-> IF daysSinceLastMessage <= 1 THEN st.currentStreak ELSE 0,
           longestStreak |-> Max({st.longestStreak, st.currentStreak}),
           streaks |-> streaks,
           totalDaysWithMessages |-> n]


(***************************************************************************)
(* Exact arithmetic for the scores: a number is a reduced fraction <<n, d>>  *)
(* with d > 0.                                                             *)
(***************************************************************************)
RECURSIVE GCD(_, _)
GCD(a, b) == IF b = 0 THEN a ELSE GCD(b, a % b)

Frac(n, d) ==
  LET g == GCD(Abs(n), Abs(d))
      sgn == IF d < 0 THEN -1 ELSE 1
  IN IF n = 0 THEN <<0, 1>> ELSE <<sgn * (n \div g), (sgn * d) \div g>>

FInt(n) == <<n, 1>>
FAdd(x, y) ==
  LET l == (x[2] \div GCD(x[2], y[2])) * y[2]
  IN Frac(x[1] * (l \div x[2]) + y[1] * (l \div y[2]), l)
FNeg(x) == <<-x[1], x[2]>>
FSub(x, y) == FAdd(x, FNeg(y))
FMul(x, y) ==
  LET a == Frac(x[1], y[2])
      b == Frac(y[1], x[2])
  IN Frac(a[1] * b[1], a[2] * b[2])
FDiv(x, y) == FMul(x, Frac(y[2], y[1]))
FLess(x, y) == FSub(x, y)[1] < 0
FLeq(x, y) == FSub(x, y)[1] <= 0
FMax(x, y) == IF FLess(x, y) THEN y ELSE x

\* Math.round: the nearest integer, halves rounded up
MathRound(x) == (2 * x[1] + x[2]) \div (2 * x[2])

(***************************************************************************)
(* js/statistics.js: predictPeakConversationTime                           *)
(***************************************************************************)
\* Array(7).fill(null).map(() => Array(24).fill(0))
EmptyMatrix == [day \in 0..6 |-> [hour \in 0..23 |-> 0]]

\* chatData.messages.forEach(msg => matrix[day][hour]++), from message i on
RECURSIVE FillMatrix(_, _, _, _)
FillMatrix(zone, messages, i, matrix) ==
  IF i > Len(messages) THEN matrix
  ELSE LET day == GetDay(zone, messages[i].timestamp)
           hour == GetHours(zone, messages[i].timestamp)
       IN FillMatrix(zone, messages, i + 1,
                     [matrix EXCEPT ![day][hour] = matrix[day][hour] + 1])

\* if (matrix[day][hour] > maxCount)
IsNewPeak_Inclusive(count, maxCount) == count >= maxCount
IsNewPeak(count, maxCount) == count > maxCount

\* for (let hour = 0; hour < 24; hour++) { ... } of one day
RECURSIVE ScanHours(_, _, _, _)
ScanHours(matrix, day, hour, peak) ==
  IF hour >= 24 THEN peak
  ELSE IF IsNewPeak(matrix[day][hour], peak.maxCount)
       THEN ScanHours(matrix, day, hour + 1,
                      [maxCount |-> matrix[day][hour],
                       peakDay |-> day, peakHour |-> hour])
       ELSE ScanHours(matrix, day, hour + 1, peak)

\* for (let day = 0; day < 7; day++) { ... }
RECURSIVE ScanDays(_, _, _)
ScanDays(matrix, day, peak) ==
  IF day >= 7 THEN peak
  ELSE ScanDays(matrix, day + 1, ScanHours(matrix, day, 0, peak))

\* const days = ['Sunday', ..., 'Saturday']
DayNames ==
  <<"Sunday", "Monday", "Tuesday", "Wednesday", "Thursday", "Friday", "Saturday">>

\* predictPeakConversationTime(chatData)
predictPeakConversationTime(zone, c) ==
  LET matrix == FillMatrix(zone, c.messages, 1, EmptyMatrix)
      peak == ScanDays(matrix, 0, [maxCount |-> 0, peakDay |-> 0, peakHour |-> 0])
      totalMessages == Len(c.messages)
      scaled == Frac(peak.maxCount * 7 * 24 * 20, totalMessages)
      confidence == IF totalMessages > 0
                    THEN IF FLess(scaled, FInt(100)) THEN scaled ELSE FInt(100)
                    ELSE FInt(0)
  IN [kind |-> "peak",
      day |-> DayNames[peak.peakDay + 1],
      hour |-> peak.peakHour,
      confidence |-> MathRound(confidence),
      messageCount |-> peak.maxCount,
      totalMessages |-> totalMessages]

\* ParticipantData.getAverageResponseTime
getAverageResponseTime(p) ==
  IF Len(p.responseTimes) = 0 THEN FInt(0)
  ELSE Frac(SumSeq(p.responseTimes), Len(p.responseTimes))

\* getHealthInterpretation(score)
getHealthInterpretation(score) ==
  IF FLeq(FInt(80), score) THEN "Excellent"
  ELSE IF FLeq(FInt(60), score) THEN "Good"
  ELSE IF FLeq(FInt(40), score) THEN "Fair"
  ELSE "Needs Attention"

\* Math.max(0, 100 - share * 100) of a share of the whole
ScoreOfShare(share) == FMax(FInt(0), FSub(FInt(100), FMul(share, FInt(100))))

\* 1. Reciprocity score, with the deviation taken against the ideal split
reciprocityScore_OfIdealSplit(p1, p2) ==
  LET totalMessages == p1.messageCount + p2.messageCount
      idealSplit == Frac(totalMessages, 2)
      deviation == LET d == FSub(FInt(p1.messageCount), idealSplit)
                   IN IF d[1] < 0 THEN FNeg(d) ELSE d
  IN ScoreOfShare(FDiv(deviation, idealSplit))

\* 1. Reciprocity score: Math.max(0, 100 - (deviation / totalMessages) * 100)
reciprocityScore(p1, p2) ==
  LET totalMessages == p1.messageCount + p2.messageCount
      idealSplit == Frac(totalMessages, 2)
      deviation == LET d == FSub(FInt(p1.messageCount), idealSplit)
                   IN IF d[1] < 0 THEN FNeg(d) ELSE d
  IN ScoreOfShare(FDiv(deviation, FInt(totalMessages)))

\* 2. Response score: the mean of the two participants' scores
responseScore(p1, p2) ==
  LET maxTime == FInt(24 * 60 * 60 * 1000)
      score(p) == ScoreOfShare(FDiv(getAverageResponseTime(p), maxTime))
  IN FDiv(FAdd(score(p1), score(p2)), FInt(2))

\* 3. Engagement score: 5 to 20 words per message are optimal
engagementScore(p1, p2) ==
  LET avgWordCount1 == Frac(p1.wordCount, p1.messageCount)
      avgWordCount2 == Frac(p2.wordCount, p2.messageCount)
      avgWordCount == FDiv(FAdd(avgWordCount1, avgWordCount2), FInt(2))
  IN IF FLess(avgWordCount, FInt(5))
     THEN FMul(FDiv(avgWordCount, FInt(5)), FInt(100))
     ELSE IF FLess(FInt(20), avgWordCount)
     THEN ScoreOfShare(FDiv(FSub(avgWordCount, FInt(20)), FInt(30)))
     ELSE FInt(100)

\* 4. Overall health: the weighted average, before Math.round
overallHealth(p1, p2) ==
  FAdd(FMul(reciprocityScore(p1, p2), Frac(4, 10)),
       FAdd(FMul(responseScore(p1, p2), Frac(3, 10)),
            FMul(engagementScore(p1, p2), Frac(3, 10))))

\* The body of calculateRelationshipHealth after its participant-count guard
HealthScores(p1, p2) ==
  [kind |-> "health",
   overallHealth |-> MathRound(overallHealth(p1, p2)),
   reciprocityScore |-> MathRound(reciprocityScore(p1, p2)),
   responseScore |-> MathRound(responseScore(p1, p2)),
   engagementScore |-> MathRound(engagementScore(p1, p2)),
   interpretation |-> getHealthInterpretation(overallHealth(p1, p2)),
   p1 |-> p1.name,
   p2 |-> p2.name]

\* The guard of calculateRelationshipHealth: only 1-on-1 conversations
HealthApplies_AtLeastTwo(participants) == Len(participants) >= 2
HealthApplies(participants) == Len(participants) = 2

\* calculateRelationshipHealth(chatData)
calculateRelationshipHealth(c) ==
  LET participants == getAllParticipants(c)
  IN IF ~HealthApplies(participants) THEN Null
     ELSE HealthScores(participants[1], participants[2])


(***************************************************************************)
(* analyzeActivityTrend.  Its quotients are IEEE numbers: a finite value   *)
(* (a fraction), an infinity or NaN.                                       *)
(***************************************************************************)
JsFinite(x) == [kind |-> "finite", value |-> x]
JsInfinity(sign) == [kind |-> "Infinity", sign |-> sign]
JsNaN == [kind |-> "NaN"]

\* Math.ceil(a / b) for b > 0; a quotient in (-1, 0) gives -0, kept as 0
\* with the flag negativeZero
MathCeil(a, b) ==
  [value |-> -((-a) \div b), negativeZero |-> a < 0 /\ -((-a) \div b) = 0]

\* count / days, count a number of messages, days a result of Math.ceil
MessagesPerDay(count, days) ==
  IF days.value # 0 THEN JsFinite(Frac(count, days.value))
  ELSE IF count = 0 THEN JsNaN
  ELSE JsInfinity(IF days.negativeZero THEN -1 ELSE 1)

\* The sign of a finite value: -1, 0 or 1
SignOf(x) == IF x[1] < 0 THEN -1 ELSE IF x[1] = 0 THEN 0 ELSE 1

\* The quotient with a guard: 0 when an average is not finite or the first
\* one is zero
PercentageChange_Guarded(first, second) ==
  IF first.kind # "finite" \/ second.kind # "finite" \/ first.value[1] = 0
  THEN JsFinite(FInt(0))
  ELSE JsFinite(FMul(FDiv(FSub(second.value, first.value), first.value), FInt(100)))

\* ((secondPeriodAvg - firstPeriodAvg) / firstPeriodAvg) * 100
PercentageChange(first, second) ==
  IF first.kind = "NaN" \/ second.kind = "NaN" THEN JsNaN
  ELSE IF first.kind = "Infinity" THEN JsNaN
  ELSE IF second.kind = "Infinity"
       THEN JsInfinity(IF SignOf(first.value) < 0 THEN -second.sign ELSE second.sign)
  ELSE IF first.value[1] = 0
       THEN (IF second.value[1] = 0 THEN JsNaN ELSE JsInfinity(SignOf(second.value)))
  ELSE JsFinite(FMul(FDiv(FSub(second.value, first.value), first.value), FInt(100)))

\* percentageChange > 10, < -10: comparisons with NaN are false
TrendLabel(change) ==
  IF change.kind = "NaN" THEN "stable"
  ELSE IF change.kind = "Infinity"
       THEN (IF change.sign > 0 THEN "increasing" ELSE "decreasing")
  ELSE IF FLess(FInt(10), change.value) THEN "increasing"
  ELSE IF FLess(change.value, FInt(-10)) THEN "decreasing"
  ELSE "stable"

\* analyzeActivityTrend(chatData)
analyzeActivityTrend(c) ==
  IF Len(c.messages) = 0
  THEN [trend |-> "neutral", percentageChange |-> JsFinite(FInt(0)), comparison |-> Null]
  ELSE
    LET sortedMessages == SortByTime(c.messages)
        firstDate == sortedMessages[1].timestamp
        lastDate == sortedMessages[Len(sortedMessages)].timestamp
        totalDays == MathCeil(lastDate - firstDate, Day).value
        firstPeriodEnd == IF totalDays < 60 THEN firstDate + totalDays * (Day \div 2)
                          ELSE firstDate + 30 * Day
        secondPeriodStart == IF totalDays < 60 THEN firstDate + totalDays * (Day \div 2)
                             ELSE lastDate - 30 * Day
        firstPeriodMessages ==
          Len(SelectSeq(sortedMessages,
                        LAMBDA m : m.timestamp >= firstDate /\ m.timestamp <= firstPeriodEnd))
        secondPeriodMessages ==
          Len(SelectSeq(sortedMessages,
                        LAMBDA m : m.timestamp >= secondPeriodStart /\ m.timestamp <= lastDate))
        firstPeriodDays == MathCeil(firstPeriodEnd - firstDate, Day)
        secondPeriodDays == MathCeil(lastDate - secondPeriodStart, Day)
        firstPeriodAvg == MessagesPerDay(firstPeriodMessages, firstPeriodDays)
        secondPeriodAvg == MessagesPerDay(secondPeriodMessages, secondPeriodDays)
        percentageChange == PercentageChange(firstPeriodAvg, secondPeriodAvg)
    IN [trend |-> TrendLabel(percentageChange),
        percentageChange |-> percentageChange,
        comparison |->
          [firstPeriod |-> [messages |-> firstPeriodMessages,
                            days |-> firstPeriodDays.value,
                            avgPerDay |-> firstPeriodAvg],
           secondPeriod |-> [messages |-> secondPeriodMessages,
                             days |-> secondPeriodDays.value,
                             avgPerDay |-> secondPeriodAvg]]]

(***************************************************************************)
(* The index and its analyzers as a state machine (js/app.js: handleFile   *)
(* builds a fresh ChatData, loads the parsed messages and runs             *)
(* calculateAllStatistics; the report then calls the read-only analyzers). *)
(***************************************************************************)
MaxMsgs == 3
MaxRuns == 2

Participants == {"Alice", "Bob", "Carol"}

\* Instants whose pairwise gaps lie below, on and above the two thresholds
StatTimes == {0, Second, twoHours + Second, twentyFourHours + Second}

WordsOf(p) == CASE p = "Alice" -> 3 [] p = "Bob" -> 10 [] OTHER -> 40

MessagePool ==
  {Message(t, p, FALSE, FALSE, WordsOf(p)) : t \in StatTimes, p \in {"Alice", "Bob"}}
    \cup {Message(Second, "Carol", FALSE, FALSE, WordsOf("Carol")),
          Message(twentyFourHours + Second, "Carol", FALSE, FALSE, WordsOf("Carol")),
          Message(Second, "Carol", TRUE, FALSE, 3),
          Message(0, "Bob", FALSE, TRUE, 2)}

SeqsUpTo(S, n) == UNION {[1..k -> S] : k \in 0..n}

\* The parts of the state a specification does not use stay idle
IdleIndex ==
  /\ chat = NoChat
  /\ runs = 0
  /\ attrib = <<>>
  /\ upload = <<>>
  /\ loads = 0
  /\ out = NoOut
  /\ streakInfo = NoOut
  /\ sentiment = NoOut

IdleParser ==
  /\ fileContent = <<>>
  /\ lineNo = 0
  /\ currentMessage = Null
  /\ parsedMessages = <<>>
  /\ parseState = "idle"
  /\ parseError = ""
  /\ origin = Null

IdleLex ==
  /\ wordInput = Null
  /\ topWords = NoOut

\* The handleFile calls that may be suspended at one time
MaxFlights == 2
Slots == 1..MaxFlights
NoFlight == [pc |-> "idle"]

\* let isProcessing = false; no handleFile call yet; the upload screen
IdleUpload ==
  /\ isProcessing = FALSE
  /\ flights = [s \in Slots |-> NoFlight]
  /\ screen = "upload"

IdleApp ==
  /\ currentDateFilter = Null
  /\ shown = NoOut
  /\ handlerResult = [handler |-> "none", result |-> "none"]
  /\ IdleUpload

InitStats ==
  /\ scorer = TRUE
  /\ IdleIndex
  /\ IdleParser
  /\ IdleLex
  /\ IdleApp

\* handleFile: chatData = new ChatData(); chatData.loadMessages(messages)
LoadMessages ==
  /\ chat = NoChat
  /\ \E ms \in SeqsUpTo(MessagePool, MaxMsgs) :
       /\ chat' = loadMessages(tz, NewChatData, ms)
       /\ upload' = ms
       /\ loads' = 1
  /\ UNCHANGED <<envVars, runs, attrib, viewVars, parserVars, lexVars, appVars, uploadVars>>

\* calculateAllStatistics(chatData)
CalculateAllStatistics ==
  /\ chat # NoChat
  /\ runs < MaxRuns
  /\ chat' = calculateAllStatistics(chat)
  /\ attrib' = attrib \o ResponseSamples(chat, SortByTime(chat.messages), 1)
  /\ runs' = runs + 1
  /\ UNCHANGED <<envVars, upload, loads, viewVars, parserVars, lexVars, appVars, uploadVars>>

\* The report (js/ui.js, js/charts.js) calls the read-only analyzers
RenderStats ==
  /\ chat # NoChat
  /\ out' = [kind |-> "report",
             conversationLengths |-> analyzeConversationLengths(chat),
             initiatorPatterns |-> getConversationInitiatorPatterns(tz, chat),
             health |-> calculateRelationshipHealth(chat),
             activityTrend |-> analyzeActivityTrend(chat)]
  /\ UNCHANGED <<envVars, indexVars, streakInfo, sentiment, parserVars, lexVars, appVars, uploadVars>>

Init ==
  /\ tz = "fixed"
  /\ InitStats

Next ==
  \/ LoadMessages
  \/ CalculateAllStatistics
  \/ RenderStats

Spec == Init /\ [][Next]_vars

\* The index and the calculators alone, without the report
NextEngine ==
  \/ LoadMessages
  \/ CalculateAllStatistics

SpecEngine == Init /\ [][NextEngine]_vars

(***************************************************************************)
(* Properties of the statistics engine                                     *)
(***************************************************************************)
SortedMessages == SortByTime(chat.messages)

\* The timeDiffs of the history entries whose responder is name, in order
RECURSIVE SamplesOf(_, _)
SamplesOf(log, name) ==
  IF log = <<>> THEN <<>>
  ELSE (IF log[1].responder = name THEN <<log[1].timeDiff>> ELSE <<>>)
         \o SamplesOf(Tail(log), name)

\* C1: every response-time sample stored on a participant is a delta d with
\* 0 <= d < 24h, the stored samples are exactly those of the recorded
\* (author, responder) pairs, and no pair has the responder equal to the
\* author of the message responded to.
C1_ResponseSamplesValid ==
  chat # NoChat =>
    /\ \A k \in 1..Len(chat.participants) :
         LET p == chat.participants[k]
         IN /\ \A i \in 1..Len(p.responseTimes) :
                 0 <= p.responseTimes[i] /\ p.responseTimes[i] < 86400000
            /\ p.responseTimes = SamplesOf(attrib, p.name)
    /\ \A i \in 1..Len(attrib) : attrib[i].responder # attrib[i].author

\* C1 witness: after a run, a sample is stored while another message is
\* followed by a different participant exactly 24h later.
C1_Witness ==
  /\ chat # NoChat
  /\ runs >= 1
  /\ Len(attrib) >= 1
  /\ \E i \in 1..(Len(SortedMessages) - 1) :
       /\ SortedMessages[i + 1].participant # SortedMessages[i].participant
       /\ SortedMessages[i + 1].timestamp - SortedMessages[i].timestamp = 86400000

ConversationsStarted(p) == p.conversationsStarted
SumByHour(p) == SumSeq([h \in 1..24 |-> p.byHour[h - 1]])

\* The number of conversations of the index by the 2-hour rule: one, plus one
\* per gap between consecutive time-sorted messages that exceeds 2 hours.
ConversationCount ==
  IF Len(SortedMessages) = 0 THEN 0
  ELSE 1 + Cardinality({i \in 2..Len(SortedMessages) :
             SortedMessages[i].timestamp - SortedMessages[i - 1].timestamp > 7200000})

\* C2: after one run of the analyzers, the sum of conversationsStarted, the
\* total number of conversations and the sum of all byHour initiator counts
\* are equal, and equal the number of conversations obtained by splitting
\* exactly at the gaps that exceed 2 hours.
C2_BoundariesAgree ==
  (chat # NoChat /\ runs = 1 /\ out # NoOut) =>
    /\ SumSeq([k \in 1..Len(chat.participants) |-> ConversationsStarted(chat.participants[k])]) = ConversationCount
    /\ out.conversationLengths.total = ConversationCount
    /\ SumSeq([k \in 1..Len(out.initiatorPatterns.patterns) |-> SumByHour(out.initiatorPatterns.patterns[k])]) = ConversationCount

\* C2 witness: a report after one run over messages with a gap of exactly
\* 2 hours and a gap above 2 hours.
C2_Witness ==
  /\ chat # NoChat /\ runs = 1 /\ out # NoOut
  /\ \E i \in 2..Len(SortedMessages) :
       SortedMessages[i].timestamp - SortedMessages[i - 1].timestamp = 7200000
  /\ \E i \in 2..Len(SortedMessages) :
       SortedMessages[i].timestamp - SortedMessages[i - 1].timestamp > 7200000

\* C6: calculateRelationshipHealth returns null exactly when the index does
\* not have exactly 2 participants.
C6_HealthOnlyForTwo ==
  (chat # NoChat /\ out # NoOut) =>
    (out.health = Null <=> chat.metadata.totalParticipants # 2)

\* C6 witness: a report over three participants, with no health result
C6_Witness ==
  /\ chat # NoChat /\ out # NoOut
  /\ chat.metadata.totalParticipants = 3
  /\ out.health = Null

\* A report over exactly two participants carries a score object
C6_WitnessTwo ==
  /\ chat # NoChat /\ out # NoOut
  /\ chat.metadata.totalParticipants = 2
  /\ out.health.kind = "health"



\* Array.prototype.sort() without a comparator orders strings by code unit;
\* the rank of a name of the model in that order
NameRank(name) == CASE name = "Alice" -> 1 [] name = "Bob" -> 2 [] OTHER -> 3

\* parser.js getParticipants: the names of the non-system messages, sorted
getParticipants(messages) ==
  LET names == {messages[i].participant :
                  i \in {j \in 1..Len(messages) : ~messages[j].isSystem}}
      sorted == SortedSeqOf({NameRank(n) : n \in names})
  IN [k \in 1..Len(sorted) |-> CHOOSE n \in names : NameRank(n) = sorted[k]]

\* Every message an index holds: in messages, in a participant record or in
\* a lookup bucket
IndexedMessages(c) ==
  {c.messages[i] : i \in 1..Len(c.messages)}
    \cup UNION {{c.participants[k].messages[i] :
                   i \in 1..Len(c.participants[k].messages)} :
                  k \in 1..Len(c.participants)}
    \cup UNION {{c.messagesByHour[h][i] : i \in 1..Len(c.messagesByHour[h])} :
                  h \in 0..23}
    \cup UNION {{c.messagesByDay[d][i] : i \in 1..Len(c.messagesByDay[d])} :
                  d \in 0..6}
    \cup UNION {{c.messagesByDate[k].messages[i] :
                   i \in 1..Len(c.messagesByDate[k].messages)} :
                  k \in 1..Len(c.messagesByDate)}

\* The names that authored a message of kind sys in the upload
AuthorsOf(sys) ==
  {upload[i].participant : i \in {j \in 1..Len(upload) : upload[j].isSystem = sys}}

OnlySystemAuthors == AuthorsOf(TRUE) \ AuthorsOf(FALSE)

\* C11: after loadMessages the index holds no system message in messages, in
\* a participant record or in a lookup bucket; a name that authored only
\* system messages has no record, is not counted in totalParticipants and is
\* not returned by getParticipants.
C11_SystemMessagesExcluded ==
  chat # NoChat =>
    /\ \A m \in IndexedMessages(chat) : ~m.isSystem
    /\ \A name \in OnlySystemAuthors :
         /\ getParticipant(chat, name) = 0
         /\ \A k \in 1..Len(getParticipants(upload)) :
              getParticipants(upload)[k] # name
    /\ chat.metadata.totalParticipants = Cardinality(AuthorsOf(FALSE))
    /\ Len(getAllParticipants(chat)) = Cardinality(AuthorsOf(FALSE))

C11_Witness ==
  /\ chat # NoChat
  /\ OnlySystemAuthors = {"Carol"}
  /\ chat.metadata.totalParticipants = 2
  /\ getParticipants(upload) = <<"Alice", "Bob">>



\* What the calculators keep on a participant
DerivedCounters(p) ==
  [name |-> p.name, responseTimes |-> p.responseTimes,
   conversationsStarted |-> p.conversationsStarted, burstCount |-> p.burstCount]

DerivedOf(c) == [k \in 1..Len(c.participants) |-> DerivedCounters(c.participants[k])]

\* The index after loadMessages and one run of calculateAllStatistics
SingleRun == calculateAllStatistics(loadMessages(tz, NewChatData, upload))

\* C18: after any number of runs of calculateAllStatistics on the same
\* ChatData every participant's response-time samples, conversationsStarted
\* and burstCount are those a single run produces.
C18_RunsAreIdempotent ==
  (chat # NoChat /\ runs >= 1) => DerivedOf(chat) = DerivedOf(SingleRun)

\* What the code does: the first run gives the single-run values, every
\* further run adds them once more
C18_RunsAccumulate ==
  (chat # NoChat /\ runs >= 1) =>
    \A k \in 1..Len(chat.participants) :
      LET p == chat.participants[k]
          once == SingleRun.participants[k]
      IN /\ Len(p.responseTimes) = runs * Len(once.responseTimes)
         /\ p.conversationsStarted = runs * once.conversationsStarted
         /\ p.burstCount = runs * once.burstCount
         /\ runs = 1 => DerivedCounters(p) = DerivedCounters(once)

\* Two runs over Alice, Bob a second later, Bob again: Alice has started two
\* conversations instead of one, Bob has two samples and two bursts
C18_Divergence ==
  /\ chat # NoChat
  /\ runs = 2
  /\ Len(chat.participants) = 2
  /\ chat.participants[1].conversationsStarted = 2
  /\ SingleRun.participants[1].conversationsStarted = 1
  /\ chat.participants[2].responseTimes = <<Second, Second>>
  /\ chat.participants[2].burstCount = 2


\* C19: for every non-empty message set the percentageChange of
\* analyzeActivityTrend is a finite number, and it is 0 when the average of
\* the first period is zero or is not a finite number.
C19_PercentageChangeFinite ==
  (chat # NoChat /\ out # NoOut /\ Len(chat.messages) > 0) =>
    LET first == out.activityTrend.comparison.firstPeriod.avgPerDay
    IN /\ out.activityTrend.percentageChange.kind = "finite"
       /\ (first.kind # "finite" \/ first.value[1] = 0) =>
            out.activityTrend.percentageChange = JsFinite(FInt(0))

\* What the code does: the value is finite exactly when both periods have
\* at least one day, and then it is the stated quotient
C19_FiniteWhenPeriodsHaveDays ==
  (chat # NoChat /\ out # NoOut /\ Len(chat.messages) > 0) =>
    LET cmp == out.activityTrend.comparison
    IN out.activityTrend.percentageChange.kind = "finite"
         <=> (cmp.firstPeriod.days > 0 /\ cmp.secondPeriod.days > 0)

\* A single message: both periods have zero days, both averages are
\* Infinity, percentageChange is NaN and the trend is called stable
C19_Divergence ==
  /\ chat # NoChat /\ out # NoOut
  /\ Len(chat.messages) = 1
  /\ out.activityTrend.comparison.firstPeriod.avgPerDay = JsInfinity(1)
  /\ out.activityTrend.percentageChange = JsNaN
  /\ out.activityTrend.trend = "stable"

\* Messages more than a day apart: the value is a finite number
C19_FiniteReached ==
  /\ chat # NoChat /\ out # NoOut
  /\ out.activityTrend.percentageChange.kind = "finite"
  /\ Len(chat.messages) = 3
  /\ out.activityTrend.trend = "decreasing"


\* The label the thresholds give to a reported overall score
LabelOfReported(reported) ==
  IF reported >= 80 THEN "Excellent"
  ELSE IF reported >= 60 THEN "Good"
  ELSE IF reported >= 40 THEN "Fair"
  ELSE "Needs Attention"

\* C20: in every relationship-health result the label agrees with the
\* reported overall score, the weighted sum rounded to the nearest integer:
\* 80 and more Excellent, 60..79 Good, 40..59 Fair, below 40 Needs Attention.
C20_LabelAgreesWithScore ==
  (chat # NoChat /\ out # NoOut /\ out.health # Null) =>
    out.health.interpretation = LabelOfReported(out.health.overallHealth)


\* What the code does: the label is taken from the weighted sum before it
\* is rounded, so it is the label of the reported score or of the score
\* one below it
C20_LabelOfUnroundedScore ==
  (chat # NoChat /\ out # NoOut /\ out.health # Null) =>
    out.health.interpretation
      \in {LabelOfReported(out.health.overallHealth),
           LabelOfReported(out.health.overallHealth - 1)}

\* Alice twice, Bob answering after 22 hours: the weighted sum is 79.58, the
\* report shows 80 with the label Good
C20_Divergence ==
  /\ chat # NoChat /\ out # NoOut /\ out.health # Null
  /\ out.health.overallHealth = 80
  /\ out.health.interpretation = "Good"
  /\ out.health.responseScore = 54

\* The positions of the time-sorted sequence that hold a message of name
PositionsOf(name) ==
  {i \in 1..Len(SortedMessages) : SortedMessages[i].participant = name}

\* The first positions of the maximal runs of consecutive messages of name
RunStarts(name) ==
  {i \in PositionsOf(name) : i = 1 \/ SortedMessages[i - 1].participant # name}

\* C23: after one calculateMessageBursts over a fresh index, a participant's
\* burstCount is the number of that participant's messages whose immediately
\* preceding message of the time-sorted sequence is from the same
\* participant, whatever the gap between the two, which is messageCount
\* minus the number of the participant's maximal runs.
C23_BurstCount ==
  (chat # NoChat /\ runs = 1) =>
    \A k \in 1..Len(chat.participants) :
      LET p == chat.participants[k]
      IN /\ p.burstCount
              = Cardinality({i \in PositionsOf(p.name) :
                               i > 1 /\ SortedMessages[i - 1].participant = p.name})
         /\ p.burstCount = p.messageCount - Cardinality(RunStarts(p.name))

\* Two messages of one participant more than 24 hours apart, and one of
\* another participant: the second message of the run is counted
C23_Witness ==
  /\ chat # NoChat /\ runs = 1
  /\ Len(chat.participants) = 2
  /\ \E k \in 1..2 :
       /\ chat.participants[k].burstCount = 1
       /\ chat.participants[k].messageCount = 2
       /\ \E i \in PositionsOf(chat.participants[k].name) :
            /\ i > 1
            /\ SortedMessages[i - 1].participant = chat.participants[k].name
            /\ isNewConversation(SortedMessages[i].timestamp
                                   - SortedMessages[i - 1].timestamp)

\* j is the first message after message i that is by a different participant
IsFirstReply(i, j) ==
  /\ i < j
  /\ SortedMessages[j].participant # SortedMessages[i].participant
  /\ \A m \in (i + 1)..(j - 1) :
       SortedMessages[m].participant = SortedMessages[i].participant

\* The messages whose first reply is by name and comes under 24 hours later
AnsweredBy(name) ==
  {i \in 1..Len(SortedMessages) :
     \E j \in 1..Len(SortedMessages) :
       /\ IsFirstReply(i, j)
       /\ SortedMessages[j].participant = name
       /\ SortedMessages[j].timestamp - SortedMessages[i].timestamp < 24 * Hour}

DelayOf(i) ==
  LET j == CHOOSE j \in 1..Len(SortedMessages) : IsFirstReply(i, j)
  IN SortedMessages[j].timestamp - SortedMessages[i].timestamp

\* C24: after one calculateResponseTimes over a fresh index, the samples of
\* a participant are exactly one delay per message whose first later
\* message by a different participant is theirs and under 24 hours later,
\* each message of a same-participant run included, and nothing else.
C24_ResponseSamplesExact ==
  (chat # NoChat /\ runs = 1) =>
    \A k \in 1..Len(chat.participants) :
      LET p == chat.participants[k]
          answered == SortedSeqOf(AnsweredBy(p.name))
      IN p.responseTimes = [n \in 1..Len(answered) |-> DelayOf(answered[n])]

\* A run of two messages of one participant answered by another: the
\* responder has one sample per message of the run
C24_Witness ==
  /\ chat # NoChat /\ runs = 1
  /\ Len(SortedMessages) = 3
  /\ SortedMessages[1].participant = SortedMessages[2].participant
  /\ SortedMessages[3].participant # SortedMessages[1].participant
  /\ SortedMessages[1].timestamp < SortedMessages[2].timestamp
  /\ \E k \in 1..Len(chat.participants) :
       /\ chat.participants[k].name = SortedMessages[3].participant
       /\ Len(chat.participants[k].responseTimes) = 2

\* A reply exactly 24 hours later leaves no sample, and a last message has none
C24_WitnessLate ==
  /\ chat # NoChat /\ runs = 1
  /\ Len(SortedMessages) = 2
  /\ IsFirstReply(1, 2)
  /\ SortedMessages[2].timestamp - SortedMessages[1].timestamp = 24 * Hour
  /\ \A k \in 1..Len(chat.participants) : chat.participants[k].responseTimes = <<>>

\* The non-system messages of the uploaded array, in its order
NonSystemUpload == SelectSeq(upload, LAMBDA m : ~m.isSystem)

\* How many times message m occurs in the sequence s
CopiesIn(s, m) == Cardinality({i \in 1..Len(s) : s[i] = m})

\* The key of message m in a lookup of the index
LookupKey(lookup, m) ==
  CASE lookup = "participant" -> m.participant
    [] lookup = "hour" -> GetHours(tz, m.timestamp)
    [] lookup = "day" -> GetDay(tz, m.timestamp)
    [] lookup = "date" -> ToDateString(tz, m.timestamp)

\* The buckets of a lookup, one sequence of messages per key, hold every
\* message of the sequence all as often as all does, each under its own
\* key and under no other
IsPartition(lookup, buckets, keys, all) ==
  /\ \A k \in keys : \A i \in 1..Len(buckets[k]) : LookupKey(lookup, buckets[k][i]) = k
  /\ \A n \in 1..Len(all) :
       /\ LookupKey(lookup, all[n]) \in keys
       /\ CopiesIn(buckets[LookupKey(lookup, all[n])], all[n]) = CopiesIn(all, all[n])

\* The index c is a consistent partition of the message sequence all
IsConsistentIndex(c, all) ==
  LET n == Len(all)
      parts == c.participants
      names == {parts[k].name : k \in 1..Len(parts)}
      byName == [name \in names |-> parts[ParticipantIndex(parts, name)].messages]
      dates == {c.messagesByDate[k].key : k \in 1..Len(c.messagesByDate)}
      byDate == [d \in dates |-> c.messagesByDate[KeyIndex(c.messagesByDate, d)].messages]
  IN /\ c.messages = all
     /\ Cardinality(names) = Len(parts)
     /\ IsPartition("participant", byName, names, all)
     /\ \A k \in 1..Len(parts) : parts[k].messageCount = Len(parts[k].messages)
     /\ IsPartition("hour", c.messagesByHour, 0..23, all)
     /\ IsPartition("day", c.messagesByDay, 0..6, all)
     /\ Cardinality(dates) = Len(c.messagesByDate)
     /\ IsPartition("date", byDate, dates, all)
     /\ c.metadata.totalMessages = n
     /\ SumSeq([k \in 1..Len(parts) |-> parts[k].messageCount]) = n
     /\ SumSeq([h \in 1..24 |-> Len(c.messagesByHour[h - 1])]) = n
     /\ SumSeq([d \in 1..7 |-> Len(c.messagesByDay[d - 1])]) = n
     /\ c.metadata.totalParticipants = Cardinality({all[i].participant : i \in 1..n})
     /\ \A i \in 1..n :
          /\ c.metadata.startDate <= all[i].timestamp
          /\ all[i].timestamp <= c.metadata.endDate

\* C26: after loadMessages on a fresh ChatData every non-system message is
\* in exactly one participant record (its author's), one hour bucket, one
\* day-of-week bucket and one calendar-date bucket; totalMessages, the sum
\* of the participants' messageCount and the sums of the hour and of the day
\* bucket sizes all equal the number of non-system messages;
\* totalParticipants is the number of distinct authors; and every timestamp
\* lies between startDate and endDate.
C26_IndexIsPartition == (chat # NoChat) => IsConsistentIndex(chat, NonSystemUpload)

\* An upload of a system message, a media message and a text message on
\* another day by another participant
C26_Witness ==
  /\ chat # NoChat
  /\ Len(upload) = 3
  /\ chat.metadata.totalMessages = 2
  /\ chat.metadata.totalParticipants = 2
  /\ \E i \in 1..2 : chat.messages[i].isMedia
  /\ Len(chat.messagesByDate) = 2
  /\ chat.metadata.startDate < chat.metadata.endDate

\* The permutations of 1..n
OrdersOf(n) == {f \in [1..n -> 1..n] : \A i, j \in 1..n : f[i] = f[j] => i = j}

\* What the analyzers derive from an index: per participant the response
\* time samples, conversationsStarted and burstCount, the conversation
\* lengths, and the streaks as of the day after the last modelled day
AnalysisOf(c) ==
  [counters |-> {[name |-> c.participants[k].name,
                  responseTimes |-> c.participants[k].responseTimes,
                  conversationsStarted |-> c.participants[k].conversationsStarted,
                  burstCount |-> c.participants[k].burstCount] :
                   k \in 1..Len(c.participants)},
   conversationLengths |-> analyzeConversationLengths(c),
   streaks |-> calculateStreaks(tz, c, LocalMidnight(tz, 2))]

DistinctTimestamps(messages) ==
  \A i, j \in 1..Len(messages) :
    messages[i].timestamp = messages[j].timestamp => i = j

\* C29: for messages of pairwise distinct timestamps every order of the
\* input gives the same response-time samples, conversationsStarted and
\* burstCount per participant, the same conversation lengths and the same
\* streaks.
C29_InputOrderIrrelevant ==
  (chat # NoChat /\ runs = 1 /\ DistinctTimestamps(upload)) =>
    \A f \in OrdersOf(Len(upload)) :
      AnalysisOf(chat)
        = AnalysisOf(calculateAllStatistics(
                       loadMessages(tz, NewChatData,
                                    [i \in 1..Len(upload) |-> upload[f[i]]])))

\* Three messages of two participants on two days, uploaded latest first
C29_Witness ==
  /\ chat # NoChat /\ runs = 1 /\ DistinctTimestamps(upload)
  /\ Len(upload) = 3
  /\ upload[1].timestamp > upload[2].timestamp
  /\ upload[2].timestamp > upload[3].timestamp
  /\ upload[1].timestamp > Day
  /\ Len(chat.participants) = 2
  /\ \E k \in 1..2 : chat.participants[k].responseTimes # <<>>
  /\ \E k \in 1..2 : chat.participants[k].burstCount = 1

(***************************************************************************)
(* 1-on-1 chats of every split: one participant writes first, an hour     *)
(* between messages, then the other answers.                               *)
(***************************************************************************)
MaxSplit == 5

\* count messages of name, hourly from the instant start on
HourlyMessages(name, count, start, words) ==
  [i \in 1..count |-> Message(start + (i - 1) * Hour, name, FALSE, words = 0, words)]

\* Words per message: a media message, a short, an optimal and a long text
SplitWords == {0, 3, 10, 40}

LoadSplit ==
  /\ chat = NoChat
  /\ \E m1 \in 1..MaxSplit, m2 \in 1..MaxSplit, w1 \in SplitWords, w2 \in SplitWords,
        gap \in {Hour, 12 * Hour}, bobFirst \in BOOLEAN :
       LET alice == HourlyMessages("Alice", m1, 0, w1)
           bob == HourlyMessages("Bob", m2, (m1 - 1) * Hour + gap, w2)
           ms == IF bobFirst THEN bob \o alice ELSE alice \o bob
       IN /\ chat' = loadMessages(tz, NewChatData, ms)
          /\ upload' = ms
          /\ loads' = 1
  /\ UNCHANGED <<envVars, runs, attrib, viewVars, parserVars, lexVars, appVars, uploadVars>>

NextHealth ==
  \/ LoadSplit
  \/ CalculateAllStatistics
  \/ RenderStats

SpecHealth == Init /\ [][NextHealth]_vars

\* 100 - |msgs_p1 - total/2| / total * 100 for the counts m1 and m2
StatedReciprocity(m1, m2) ==
  Frac(100 * (2 * (m1 + m2) - Abs(2 * m1 - (m1 + m2))), 2 * (m1 + m2))

\* C30: in an index of two participants the unrounded reciprocity score is
\* 100 - |msgs_p1 - total/2| / total * 100, lies between 50 and 100, is 100
\* exactly for an even split and is the same for the two participants
\* exchanged; the overall health score, unrounded and as reported, lies
\* between 20 and 100.
C30_ReciprocityRange ==
  (chat # NoChat /\ Len(chat.participants) = 2) =>
    LET p1 == chat.participants[1]
        p2 == chat.participants[2]
        score == reciprocityScore(p1, p2)
    IN /\ score = StatedReciprocity(p1.messageCount, p2.messageCount)
       /\ FLeq(FInt(50), score) /\ FLeq(score, FInt(100))
       /\ (score = FInt(100)) = (p1.messageCount = p2.messageCount)
       /\ score = reciprocityScore(p2, p1)
       /\ FLeq(FInt(20), overallHealth(p1, p2)) /\ FLeq(overallHealth(p1, p2), FInt(100))
       /\ (out # NoOut) =>
            /\ out.health # Null
            /\ out.health.overallHealth >= 20 /\ out.health.overallHealth <= 100

\* Five messages against one, all of them media: reciprocity 66.67, the
\* engagement score 0, and the report shows an overall score below 60
C30_Witness ==
  /\ chat # NoChat /\ out # NoOut /\ runs >= 1
  /\ Len(chat.participants) = 2
  /\ chat.participants[1].messageCount = 5
  /\ chat.participants[2].messageCount = 1
  /\ reciprocityScore(chat.participants[1], chat.participants[2]) = Frac(200, 3)
  /\ out.health # Null
  /\ out.health.engagementScore = 0
  /\ out.health.overallHealth < 60

(***************************************************************************)
(* The ChatData class on its own: one instance, loaded any number of       *)
(* times, with its result cache.                                           *)
(***************************************************************************)
MaxLoads == 2

\* ChatData.invalidateCache
invalidateCache(c) == [c EXCEPT !.cache = <<>>]

\* this.cache.has(key)
CacheHas(c, key) == KeyIndex(c.cache, key) # 0

\* A getCached that calls computeFn and stores its value on every call
getCached_Always(c, key, value) ==
  IF KeyIndex(c.cache, key) = 0
  THEN [c EXCEPT !.cache = Append(@, [key |-> key, value |-> value])]
  ELSE [c EXCEPT !.cache[KeyIndex(c.cache, key)] = [key |-> key, value |-> value]]

\* ChatData.getCached(key, computeFn): the instance after the call; value is
\* what computeFn() returns, and computeFn is called only when the key is new
getCached(c, key, value) ==
  IF ~CacheHas(c, key) THEN [c EXCEPT !.cache = Append(@, [key |-> key, value |-> value])]
  ELSE c

\* this.cache.get(key)
CacheGet(c, key) == c.cache[KeyIndex(c.cache, key)].value

\* Computations a caller may cache, each a function of the loaded messages
CacheKeys == {"messageCount", "firstAuthor"}

computeFn(key, c) ==
  IF key = "messageCount" THEN Len(c.messages)
  ELSE IF Len(c.messages) = 0 THEN 0 ELSE NameRank(c.messages[1].participant)

\* The message arrays handed to loadMessages
IndexUploads ==
  {<<>>,
   <<Message(0, "Alice", FALSE, FALSE, 3)>>,
   <<Message(Second, "Bob", FALSE, FALSE, 10), Message(0, "Alice", FALSE, FALSE, 3)>>,
   <<Message(Second, "Carol", TRUE, FALSE, 3), Message(Hour, "Bob", FALSE, TRUE, 2)>>}

\* new ChatData()
NewIndex ==
  /\ chat = NoChat
  /\ chat' = NewChatData
  /\ UNCHANGED <<envVars, runs, attrib, upload, loads, viewVars, parserVars, lexVars, appVars, uploadVars>>

\* chatData.loadMessages(messages) on the instance at hand
ReloadMessages ==
  /\ chat # NoChat
  /\ loads < MaxLoads
  /\ \E ms \in IndexUploads :
       /\ chat' = loadMessages(tz, chat, ms)
       /\ upload' = ms
  /\ loads' = loads + 1
  /\ UNCHANGED <<envVars, runs, attrib, viewVars, parserVars, lexVars, appVars, uploadVars>>

\* chatData.getCached(key, () => computeFn(key))
GetCached ==
  /\ chat # NoChat
  /\ \E key \in CacheKeys :
       /\ chat' = getCached(chat, key, computeFn(key, chat))
       /\ out' = [kind |-> "cached", key |-> key,
                  value |-> CacheGet(chat', key),
                  called |-> ~CacheHas(chat, key)]
  /\ UNCHANGED <<envVars, runs, attrib, upload, loads, streakInfo, sentiment,
                 parserVars, lexVars, appVars, uploadVars>>

\* chatData.invalidateCache()
InvalidateCache ==
  /\ chat # NoChat
  /\ chat.cache # <<>>
  /\ chat' = invalidateCache(chat)
  /\ UNCHANGED <<envVars, runs, attrib, upload, loads, viewVars, parserVars, lexVars, appVars, uploadVars>>

NextIndex ==
  \/ NewIndex
  \/ ReloadMessages
  \/ GetCached
  \/ InvalidateCache

SpecIndex == Init /\ [][NextIndex]_vars

\* C13: every loadMessages call leaves the cache empty, so that the next
\* getCached of any key calls its computeFn and returns a value of the
\* messages now loaded.
C13_CacheInvalidatedOnLoad ==
  [][/\ ReloadMessages => chat'.cache = <<>>
     /\ GetCached => out'.value = computeFn(out'.key, chat)]_vars

\* What the code does: loadMessages leaves the cache as it was
C13_CacheSurvivesLoad == [][ReloadMessages => chat'.cache = chat.cache]_vars

\* A value cached before a reload is returned after it, without a call of
\* computeFn, although the messages now loaded give another value
C13_Divergence ==
  /\ chat # NoChat /\ out # NoOut
  /\ loads = 2
  /\ ~out.called
  /\ out.value # computeFn(out.key, chat)
  /\ CacheGet(chat, out.key) = out.value

\* C27: after any sequence of loadMessages calls on one ChatData the
\* participant records, the hour, day and date buckets and the metadata are
\* those of the most recently loaded messages alone, so that the sum of the
\* participants' messageCount is totalMessages after a reload too.
C27_LoadIsWholesale ==
  (chat # NoChat /\ loads >= 1) =>
    /\ IsConsistentIndex(chat, NonSystemUpload)
    /\ SumSeq([k \in 1..Len(chat.participants) |-> chat.participants[k].messageCount])
         = chat.metadata.totalMessages

\* What does hold: the first load of an instance gives the index of that load
C27_FirstLoadIsWholesale ==
  (chat # NoChat /\ loads = 1) => IsConsistentIndex(chat, NonSystemUpload)

\* One message of Alice loaded, then a message of Bob and the message of
\* Alice: the instance holds two messages, Alice's record counts two
C27_Divergence ==
  /\ chat # NoChat /\ loads = 2
  /\ Len(chat.messages) = 2
  /\ chat.metadata.totalMessages = 2
  /\ getParticipant(chat, "Alice") # 0
  /\ chat.participants[getParticipant(chat, "Alice")].messageCount = 2
  /\ SumSeq([k \in 1..Len(chat.participants) |-> chat.participants[k].messageCount]) = 3
  /\ Len(chat.messagesByHour[0]) = 3

\* The cache as a set of (key, value) pairs
CacheEntries(c) == {<<c.cache[k].key, c.cache[k].value>> : k \in 1..Len(c.cache)}

\* C25: getCached calls computeFn only when the key is absent and then
\* stores what it returns; while the key is present every getCached returns
\* the stored value and changes nothing; an entry leaves the cache only
\* when invalidateCache removes all entries at once.
C25_ComputeIfAbsent ==
  [][/\ GetCached =>
          /\ out'.called = ~CacheHas(chat, out'.key)
          /\ CacheHas(chat, out'.key) =>
               /\ out'.value = CacheGet(chat, out'.key)
               /\ chat'.cache = chat.cache
          /\ ~CacheHas(chat, out'.key) =>
               /\ out'.value = computeFn(out'.key, chat)
               /\ CacheEntries(chat') = CacheEntries(chat) \cup {<<out'.key, out'.value>>}
     /\ InvalidateCache => chat'.cache = <<>>
     /\ (chat # NoChat /\ chat' # NoChat) =>
          \/ CacheEntries(chat) \subseteq CacheEntries(chat')
          \/ CacheEntries(chat') = {}]_vars

\* Both keys are cached and a getCached has returned a stored value without
\* calling computeFn
C25_Witness ==
  /\ chat # NoChat /\ out # NoOut
  /\ Len(chat.cache) = 2
  /\ ~out.called
  /\ out.value = CacheGet(chat, out.key)

\* The cache has been emptied after a value was returned from it
C25_WitnessInvalidated ==
  /\ chat # NoChat /\ out # NoOut
  /\ ~out.called
  /\ chat.cache = <<>>

(***************************************************************************)
(* Streaks over calendar days.  The index is loaded with messages on a set *)
(* of calendar days 0..MaxDay of the host's zone, and the report calls     *)
(* calculateStreaks (js/ui.js).                                            *)
(***************************************************************************)
MaxDay == 9

\* The instant at which the host's clock shows time-of-day tod on day d
LocalInstant(zone, d, tod) ==
  IF zone = "dst" /\ d = DstDay /\ tod >= 3 * Hour
  THEN LocalMidnight(zone, d) + tod - Hour
  ELSE LocalMidnight(zone, d) + tod

\* Times of day of the messages of a day: the first and the last second
TimesOfDay == {<<0>>, <<Day - Second>>, <<0, Day - Second>>}

\* One message per day of days and time of tods, by ascending day
RECURSIVE DayMessages(_, _, _)
DayMessages(zone, days, tods) ==
  IF days = {} THEN <<>>
  ELSE LET d == Min(days)
       IN [k \in 1..Len(tods) |->
             Message(LocalInstant(zone, d, tods[k]), "Alice", FALSE, FALSE, 3)]
            \o DayMessages(zone, days \ {d}, tods)

Reverse(s) == [k \in 1..Len(s) |-> s[Len(s) + 1 - k]]

\* Days on which the report may be opened
Todays == {MaxDay, MaxDay + 3}

LoadDays ==
  /\ chat = NoChat
  /\ \E days \in SUBSET (0..MaxDay), tods \in TimesOfDay, rev \in BOOLEAN :
       LET ms == DayMessages(tz, days, tods)
           given == IF rev THEN Reverse(ms) ELSE ms
       IN /\ chat' = loadMessages(tz, NewChatData, given)
          /\ upload' = given
          /\ loads' = 1
  /\ UNCHANGED <<envVars, runs, attrib, viewVars, parserVars, lexVars, appVars, uploadVars>>

CalculateStreaks ==
  /\ chat # NoChat
  /\ \E d \in Todays : streakInfo' = calculateStreaks(tz, chat, LocalMidnight(tz, d))
  /\ UNCHANGED <<envVars, indexVars, out, sentiment, parserVars, lexVars, appVars, uploadVars>>

InitCalendar ==
  /\ tz \in {"fixed", "dst"}
  /\ InitStats

NextCalendar ==
  \/ LoadDays
  \/ CalculateStreaks

SpecCalendar == InitCalendar /\ [][NextCalendar]_vars

\* renderPeakPrediction (js/ui.js): the report shows the predicted peak
PredictPeakConversationTime ==
  /\ chat # NoChat
  /\ out' = predictPeakConversationTime(tz, chat)
  /\ UNCHANGED <<envVars, indexVars, streakInfo, sentiment, parserVars, lexVars, appVars, uploadVars>>

NextPeak ==
  \/ LoadDays
  \/ PredictPeakConversationTime

SpecPeak == InitCalendar /\ [][NextPeak]_vars

\* The number of messages of the index in a (day-of-week, hour) cell
CellCount(day, hour) ==
  Cardinality({i \in 1..Len(chat.messages) :
                 /\ GetDay(tz, chat.messages[i].timestamp) = day
                 /\ GetHours(tz, chat.messages[i].timestamp) = hour})

\* C22: the predicted peak is a (day-of-week, hour) cell with the maximum
\* message count over the messages of the index, no cell before it in
\* day-major, hour-minor order has that count, and messageCount is the
\* count of that cell.
C22_PeakIsFirstMaximum ==
  (chat # NoChat /\ out # NoOut) =>
    \E day \in 0..6 :
      /\ out.day = DayNames[day + 1]
      /\ out.messageCount = CellCount(day, out.hour)
      /\ \A d \in 0..6, h \in 0..23 :
           /\ CellCount(d, h) <= out.messageCount
           /\ (CellCount(d, h) = out.messageCount)
                => (d > day \/ (d = day /\ h >= out.hour))

\* Messages on the last second of a Saturday and the first second of the
\* Sunday after it: the later message is in the cell scanned first
C22_Witness ==
  /\ chat # NoChat /\ out # NoOut
  /\ out.day = "Sunday" /\ out.hour = 0 /\ out.messageCount = 1
  /\ CellCount(6, 23) = 1
  /\ \E i \in 1..Len(chat.messages) :
       /\ GetDay(tz, chat.messages[i].timestamp) = 6
       /\ \A j \in 1..Len(chat.messages) :
            chat.messages[i].timestamp <= chat.messages[j].timestamp

\* Two cells of two messages each, with cells of one message around them
C22_WitnessTwo ==
  /\ chat # NoChat /\ out # NoOut
  /\ out.messageCount = 2
  /\ Cardinality({c \in (0..6) \X (0..23) : CellCount(c[1], c[2]) = 2}) >= 2
  /\ \E c \in (0..6) \X (0..23) : CellCount(c[1], c[2]) = 1

\* The calendar days that contain at least one message of the index
MessageDays == {ToDateString(tz, chat.messages[i].timestamp) : i \in 1..Len(chat.messages)}

\* The maximal runs <<first, last>> of consecutive days of a set of days
MaximalRuns(S) ==
  {r \in S \X S :
     /\ r[1] <= r[2]
     /\ \A d \in r[1]..r[2] : d \in S
     /\ (r[1] - 1) \notin S
     /\ (r[2] + 1) \notin S}

RunLength(r) == r[2] - r[1] + 1

\* C4: longestStreak is the length of the longest maximal run of consecutive
\* calendar days with messages, and the streaks list holds exactly the
\* maximal runs of length >= 2, one entry per run, with that run's length.
C4_StreaksAreMaximalRuns ==
  (chat # NoChat /\ streakInfo # NoOut /\ Len(chat.messages) > 0) =>
    LET runsOfDays == MaximalRuns(MessageDays)
        entries == streakInfo.streaks
        runOf(e) == <<ToDateString(tz, e.startDate), ToDateString(tz, e.endDate)>>
    IN /\ streakInfo.longestStreak = Max({RunLength(r) : r \in runsOfDays})
       /\ {runOf(entries[k]) : k \in 1..Len(entries)}
            = {r \in runsOfDays : RunLength(r) >= 2}
       /\ Len(entries) = Cardinality({r \in runsOfDays : RunLength(r) >= 2})
       /\ \A k \in 1..Len(entries) : entries[k].length = RunLength(runOf(entries[k]))

\* C4 in a zone that never changes its clocks
C4_StreaksFixedZone == (tz = "fixed") => C4_StreaksAreMaximalRuns

\* The example of C4: days 0..4 and day 9 give longestStreak 5 and one entry
C4_Example ==
  (tz = "fixed" /\ chat # NoChat /\ streakInfo # NoOut
     /\ MessageDays = {0, 1, 2, 3, 4, 9}) =>
    /\ streakInfo.longestStreak = 5
    /\ Len(streakInfo.streaks) = 1
    /\ streakInfo.streaks[1].length = 5

C4_ExampleReached ==
  chat # NoChat /\ streakInfo # NoOut /\ MessageDays = {0, 1, 2, 3, 4, 9} /\ tz = "fixed"


(***************************************************************************)
(* js/statistics.js: analyzeSentiment                                      *)
(***************************************************************************)
\* const MAX_LENGTH = 200
MAX_LENGTH == 200

\* The first day of the second calendar month of the modelled period
MonthStartDay == 1

\* getMonthKey(date): the local year and month, "YYYY-MM", as the number
\* 100 * YYYY + MM, whose order is the order of localeCompare on the keys
getMonthKey(zone, t) ==
  IF ToDateString(zone, t) < MonthStartDay THEN 202401 ELSE 202402

\* !text || text.trim().length === 0
IsBlank(text) == text \in {"", " "}

\* analyzeMessageSentiment(text); msg.score is what sentiment.analyze(text)
\* returns as result.score for the content of msg
analyzeMessageSentiment(hasScorer, msg) ==
  IF IsBlank(msg.content) THEN FInt(0)
  ELSE IF ~hasScorer THEN FInt(0)
  ELSE FMax(FInt(-1), LET x == Frac(msg.score, 10)
                      IN IF FLess(FInt(1), x) THEN FInt(1) ELSE x)

\* The early returns of the forEach body of analyzeSentiment
SkippedBySentiment(msg) == IsBlank(msg.content) \/ msg.chars > MAX_LENGTH

\* scoredMessages: the analyzed messages with their scores, in time order
RECURSIVE ScoreMessages(_, _)
ScoreMessages(hasScorer, messages) ==
  IF messages = <<>> THEN <<>>
  ELSE LET msg == Head(messages)
           rest == ScoreMessages(hasScorer, Tail(messages))
       IN IF SkippedBySentiment(msg) THEN rest
          ELSE <<[content |-> msg.content,
                  score |-> analyzeMessageSentiment(hasScorer, msg),
                  timestamp |-> msg.timestamp]>> \o rest

IsPositive(score) == FLess(Frac(5, 100), score)
IsNegative(score) == FLess(score, Frac(-5, 100))

RECURSIVE SumScores(_)
SumScores(scored) ==
  IF scored = <<>> THEN FInt(0) ELSE FAdd(Head(scored).score, SumScores(Tail(scored)))

CountWhere(scored, sign) ==
  Cardinality({k \in 1..Len(scored) :
                 CASE sign = "positive" -> IsPositive(scored[k].score)
                   [] sign = "negative" -> IsNegative(scored[k].score)
                   [] OTHER -> ~IsPositive(scored[k].score) /\ ~IsNegative(scored[k].score)})

\* [...scoredMessages].sort((a, b) => b.score - a.score): a stable sort
RECURSIVE SortByScore(_)
SortByScore(s) ==
  IF s = <<>> THEN <<>>
  ELSE LET n == Len(s)
           rest == SortByScore(SubSeq(s, 1, n - 1))
           m == s[n]
           k == Cardinality({i \in 1..Len(rest) : FLeq(m.score, rest[i].score)})
       IN SubSeq(rest, 1, k) \o <<m>> \o SubSeq(rest, k + 1, Len(rest))

\* The trend: one entry per month key of periodMap, sorted by key
RECURSIVE TrendOf(_, _, _)
TrendOf(zone, scored, keys) ==
  IF keys = {} THEN <<>>
  ELSE LET key == Min(keys)
           IsOfKey(m) == getMonthKey(zone, m.timestamp) = key
           data == SelectSeq(scored, IsOfKey)
       IN <<[period |-> key,
             avgScore |-> FDiv(SumScores(data), FInt(Len(data))),
             positive |-> CountWhere(data, "positive"),
             negative |-> CountWhere(data, "negative"),
             neutral |-> CountWhere(data, "neutral")]>>
            \o TrendOf(zone, scored, keys \ {key})

\* analyzeSentiment(chatData, participantName)
analyzeSentiment(zone, hasScorer, c, participantName) ==
  LET index == getParticipant(c, participantName)
      participant == c.participants[index]
  IN IF index = 0
     THEN [overall |-> FInt(0), positive |-> 0, negative |-> 0, neutral |-> 0,
           trend |-> <<>>, topPositive |-> <<>>, topNegative |-> <<>>]
     ELSE
       LET messages == SortByTime(participant.messages)
           scoredMessages == ScoreMessages(hasScorer, messages)
           totalScore == SumScores(scoredMessages)
           sortedByScore == SortByScore(scoredMessages)
           n == Len(sortedByScore)
           Above(m) == FLess(FInt(0), m.score)
           Below(m) == FLess(m.score, FInt(0))
       IN [overall |-> IF Len(messages) > 0
                       THEN FDiv(totalScore, FInt(Len(messages))) ELSE FInt(0),
           positive |-> CountWhere(scoredMessages, "positive"),
           negative |-> CountWhere(scoredMessages, "negative"),
           neutral |-> CountWhere(scoredMessages, "neutral"),
           trend |-> TrendOf(zone, scoredMessages,
                             {getMonthKey(zone, scoredMessages[k].timestamp) :
                                k \in 1..Len(scoredMessages)}),
           topPositive |-> SelectSeq(SubSeq(sortedByScore, 1, Min({5, n})), Above),
           topNegative |-> SelectSeq(Reverse(SubSeq(sortedByScore, Max({1, n - 4}), n)),
                                     Below)]

(***************************************************************************)
(* The sentiment section of the report (js/ui.js, js/charts.js) over a     *)
(* freshly loaded index.                                                   *)
(***************************************************************************)
MaxSentMsgs == 3

\* Contents by library score and length: short texts of each sign, a text
\* the library scores beyond +10, texts of 200 and 201 characters, a blank
SentimentPool ==
  {FullMessage(0, "Alice", FALSE, FALSE, "i love this", 3, 11, 3),
   FullMessage(Second, "Alice", FALSE, FALSE, "awful, i hate it", 4, 16, -4),
   FullMessage(Second, "Alice", FALSE, FALSE, "ok", 1, 2, 0),
   FullMessage(Hour, "Alice", FALSE, FALSE, "so bad, i hate it", 5, 17, -4),
   FullMessage(Day + Second, "Alice", FALSE, FALSE, "best best best best", 4, 19, 12),
   FullMessage(Day, "Alice", FALSE, FALSE, "pasted praise of 201 chars", 40, 201, 5),
   FullMessage(Hour, "Alice", FALSE, FALSE, "pasted praise of 200 chars", 40, 200, 5),
   FullMessage(Hour, "Alice", FALSE, FALSE, " ", 0, 1, 0),
   FullMessage(0, "Bob", FALSE, FALSE, "pasted complaint of 300 chars", 60, 300, -6),
   FullMessage(Second, "Bob", FALSE, TRUE, "image omitted", 2, 13, 0),
   FullMessage(Day, "Bob", FALSE, FALSE, "why?", 1, 4, 0)}

LoadSentimentMessages ==
  /\ chat = NoChat
  /\ \E ms \in SeqsUpTo(SentimentPool, MaxSentMsgs) :
       /\ chat' = loadMessages(tz, NewChatData, ms)
       /\ upload' = ms
       /\ loads' = 1
  /\ UNCHANGED <<envVars, runs, attrib, viewVars, parserVars, lexVars, appVars, uploadVars>>

AnalyzeSentiment ==
  /\ chat # NoChat
  /\ \E name \in Participants :
       sentiment' = [participant |-> name,
                     result |-> analyzeSentiment(tz, scorer, chat, name)]
  /\ UNCHANGED <<envVars, indexVars, out, streakInfo, parserVars, lexVars, appVars, uploadVars>>

\* ChatData.getTotalStats and getTotalStatistics: the counters the model keeps
getTotalStatistics(c) ==
  LET participants == getAllParticipants(c)
      allResponseTimes ==
        [k \in 1..Len(participants) |-> SumSeq(participants[k].responseTimes)]
      samples == SumSeq([k \in 1..Len(participants) |-> Len(participants[k].responseTimes)])
  IN [kind |-> "total",
      messageCount |-> c.metadata.totalMessages,
      wordCount |-> SumSeq([k \in 1..Len(participants) |-> participants[k].wordCount]),
      participantCount |-> c.metadata.totalParticipants,
      averageResponseTime |->
        IF samples > 0 THEN Frac(SumSeq(allResponseTimes), samples) ELSE FInt(0),
      conversationsStarted |->
        SumSeq([k \in 1..Len(participants) |-> participants[k].conversationsStarted])]

\* getParticipantStatistics(participant, chatData)
getParticipantStatistics(participant, c) ==
  [kind |-> "participant",
   name |-> participant.name,
   messageCount |-> participant.messageCount,
   wordCount |-> participant.wordCount,
   averageResponseTime |-> getAverageResponseTime(participant),
   conversationsStarted |-> participant.conversationsStarted,
   dateRange |-> [start |-> c.metadata.startDate, end |-> c.metadata.endDate]]

\* getStatistics(chatData, participantName)
getStatistics(c, participantName) ==
  IF participantName = "Total" THEN getTotalStatistics(c)
  ELSE IF getParticipant(c, participantName) = 0 THEN Null
  ELSE getParticipantStatistics(c.participants[getParticipant(c, participantName)], c)

getMessages_Unfiltered(c, participantName) == c.messages

\* ChatData.getMessages(participantName)
getMessages(c, participantName) ==
  IF participantName = "" \/ participantName = "Total" THEN c.messages
  ELSE IF getParticipant(c, participantName) = 0 THEN <<>>
  ELSE c.participants[getParticipant(c, participantName)].messages

\* msg.content && msg.content.includes('?'), for the contents of the model
HasQuestionMark(content) == content = "why?"

\* The rows of a trend: one per month key, sorted by key
RECURSIVE QuestionRows(_, _, _)
QuestionRows(zone, messages, keys) ==
  IF keys = {} THEN <<>>
  ELSE LET key == Min(keys)
           data == SelectSeq(messages, LAMBDA m : getMonthKey(zone, m.timestamp) = key)
           questions == SelectSeq(data, LAMBDA m : HasQuestionMark(m.content))
       IN <<[period |-> key,
             questionPercentage |->
               FMul(Frac(Len(questions), Len(data)), FInt(100))]>>
            \o QuestionRows(zone, messages, keys \ {key})

\* getQuestionTrend(chatData, participantName)
getQuestionTrend(zone, c, participantName) ==
  IF getParticipant(c, participantName) = 0 THEN <<>>
  ELSE LET messages ==
             SortByTime(c.participants[getParticipant(c, participantName)].messages)
       IN QuestionRows(zone, messages,
                       {getMonthKey(zone, messages[i].timestamp) : i \in 1..Len(messages)})

RECURSIVE LengthRows(_, _, _)
LengthRows(zone, messages, keys) ==
  IF keys = {} THEN <<>>
  ELSE LET key == Min(keys)
           data == SelectSeq(messages, LAMBDA m : getMonthKey(zone, m.timestamp) = key)
       IN <<[period |-> key,
             averageWords |->
               Frac(SumSeq([k \in 1..Len(data) |-> data[k].words]), Len(data))]>>
            \o LengthRows(zone, messages, keys \ {key})

\* getMessageLengthTrend(chatData, participantName), granularity 'month';
\* averageChars, a count of letters the index does not keep, is left out
getMessageLengthTrend(zone, c, participantName) ==
  IF getParticipant(c, participantName) = 0 THEN <<>>
  ELSE LET messages ==
             SortByTime(c.participants[getParticipant(c, participantName)].messages)
       IN LengthRows(zone, messages,
                     {getMonthKey(zone, messages[i].timestamp) : i \in 1..Len(messages)})

\* The names a participant view may be asked for: the participants of the
\* model, whether or not the loaded chat has them
QueryParticipant ==
  /\ chat # NoChat
  /\ \E name \in Participants :
       out' = [kind |-> "query",
               participant |-> name,
               statistics |-> getStatistics(chat, name),
               questionTrend |-> getQuestionTrend(tz, chat, name),
               messageLengthTrend |-> getMessageLengthTrend(tz, chat, name),
               sentiment |-> analyzeSentiment(tz, scorer, chat, name),
               messages |-> getMessages(chat, name)]
  /\ UNCHANGED <<envVars, indexVars, streakInfo, sentiment, parserVars, lexVars, appVars, uploadVars>>

InitSentiment ==
  /\ tz = "fixed"
  /\ scorer \in BOOLEAN
  /\ IdleIndex
  /\ IdleParser
  /\ IdleLex
  /\ IdleApp

NextSentiment ==
  \/ LoadSentimentMessages
  \/ AnalyzeSentiment

SpecSentiment == InitSentiment /\ [][NextSentiment]_vars

\* The participant views of the report over a freshly loaded index
NextQuery ==
  \/ LoadSentimentMessages
  \/ QueryParticipant

SpecQuery == InitSentiment /\ [][NextQuery]_vars

\* The index without its k-th message
WithoutMessage(c, k) ==
  loadMessages(tz, NewChatData,
               SubSeq(c.messages, 1, k - 1) \o SubSeq(c.messages, k + 1, Len(c.messages)))

\* Positions of the messages of more than 200 characters of the analyzed participant
LongPositions ==
  {k \in 1..Len(chat.messages) :
     /\ chat.messages[k].participant = sentiment.participant
     /\ chat.messages[k].chars > 200}

\* C5: a message of more than 200 characters changes no field of the
\* analyzeSentiment result: the result over the index equals the result over
\* the index without that message.
C5_LongMessagesExcluded ==
  (chat # NoChat /\ sentiment # NoOut) =>
    \A k \in LongPositions :
      sentiment.result
        = analyzeSentiment(tz, scorer, WithoutMessage(chat, k), sentiment.participant)

\* What does hold: every field other than overall ignores the long messages
C5_AllButOverall ==
  (chat # NoChat /\ sentiment # NoOut) =>
    \A k \in LongPositions :
      LET other == analyzeSentiment(tz, scorer, WithoutMessage(chat, k),
                                    sentiment.participant)
      IN [sentiment.result EXCEPT !.overall = other.overall] = other

\* The divergence: one short message of score 0.3 and one message of 201
\* characters give overall 0.15, not the 0.3 of the short message alone
C5_Divergence ==
  /\ chat # NoChat /\ sentiment # NoOut
  /\ sentiment.participant = "Alice"
  /\ Len(chat.messages) = 2
  /\ LongPositions # {}
  /\ sentiment.result.overall = Frac(15, 100)



\* scoredMessages of the analyzed participant: the original, time-sorted order
ScoredOf(name) ==
  LET index == getParticipant(chat, name)
  IN IF index = 0 THEN <<>>
     ELSE ScoreMessages(scorer, SortByTime(chat.participants[index].messages))

\* Among the entries of equal score, list keeps the order of scored, and an
\* entry is in list only if every earlier entry of scored of that score is
TiesInOriginalOrder(list, scored) ==
  /\ \A i, j \in 1..Len(list) :
       (i < j /\ list[i].score = list[j].score) =>
         \E a, b \in 1..Len(scored) :
           /\ scored[a] = list[i] /\ scored[b] = list[j]
           /\ IF list[i] = list[j] THEN a <= b ELSE a < b
  /\ \A a, b \in 1..Len(scored) :
       (/\ a < b /\ scored[a].score = scored[b].score
        /\ \E j \in 1..Len(list) : list[j] = scored[b])
         => \E i \in 1..Len(list) : list[i] = scored[a]

\* C21: in topPositive and in topNegative of an analyzeSentiment result,
\* messages of equal score are selected and listed in original (time-sorted)
\* order, the earlier message before the later one.
C21_TiesInOriginalOrder ==
  (chat # NoChat /\ sentiment # NoOut) =>
    /\ TiesInOriginalOrder(sentiment.result.topPositive, ScoredOf(sentiment.participant))
    /\ TiesInOriginalOrder(sentiment.result.topNegative, ScoredOf(sentiment.participant))

\* What does hold: topPositive keeps the original order among equal scores,
\* and topNegative lists equal scores in the reverse of the original order
C21_PositiveTiesInOrder ==
  (chat # NoChat /\ sentiment # NoOut) =>
    /\ TiesInOriginalOrder(sentiment.result.topPositive, ScoredOf(sentiment.participant))
    /\ TiesInOriginalOrder(sentiment.result.topNegative,
                           Reverse(ScoredOf(sentiment.participant)))

\* The divergence: two messages of score -0.4, one a second and one an hour
\* after the start; topNegative lists the later one first
C21_Divergence ==
  /\ chat # NoChat /\ sentiment # NoOut
  /\ sentiment.participant = "Alice"
  /\ Len(sentiment.result.topNegative) = 2
  /\ sentiment.result.topNegative[1].score = sentiment.result.topNegative[2].score
  /\ sentiment.result.topNegative[1].timestamp = Hour
  /\ sentiment.result.topNegative[2].timestamp = Second

\* The result analyzeSentiment gives for a participant the index does not have
EmptySentiment ==
  [overall |-> FInt(0), positive |-> 0, negative |-> 0, neutral |-> 0,
   trend |-> <<>>, topPositive |-> <<>>, topNegative |-> <<>>]

AbsentFromIndex(name) == \A k \in 1..Len(chat.participants) : chat.participants[k].name # name

\* C12: a query naming a participant the index does not have gets the
\* defined results: getStatistics null, getQuestionTrend and
\* getMessageLengthTrend an empty sequence, analyzeSentiment the all-zero
\* result with empty lists, getMessages an empty sequence; and after a query
\* the index is still the one loadMessages built from the upload.
C12_AbsentParticipant ==
  (chat # NoChat /\ out # NoOut) =>
    /\ chat = loadMessages(tz, NewChatData, upload)
    /\ AbsentFromIndex(out.participant) =>
         /\ out.statistics = Null
         /\ out.questionTrend = <<>>
         /\ out.messageLengthTrend = <<>>
         /\ out.sentiment = EmptySentiment
         /\ out.messages = <<>>

C12_Witness ==
  /\ chat # NoChat /\ out # NoOut
  /\ Len(chat.participants) = 1
  /\ out.participant = "Bob"
  /\ AbsentFromIndex("Bob")
  /\ out.statistics = Null

\* A participant the index has gets results that are not the empty ones
C12_WitnessPresent ==
  /\ chat # NoChat /\ out # NoOut
  /\ ~AbsentFromIndex(out.participant)
  /\ out.statistics # Null
  /\ Len(out.questionTrend) = 2
  /\ out.messages # <<>>

(***************************************************************************)
(* js/parser.js.  A string is a sequence of characters, each a one-        *)
(* character string; "<200E>" and "<FEFF>" stand for the characters        *)
(* U+200E and U+FEFF.                                                      *)
(***************************************************************************)
DigitChars == <<"0", "1", "2", "3", "4", "5", "6", "7", "8", "9">>
Digits == {DigitChars[i] : i \in 1..Len(DigitChars)}
IsDigit(c) == c \in Digits
DigitValue(c) == (CHOOSE i \in 1..Len(DigitChars) : DigitChars[i] = c) - 1

\* The characters \s and String.prototype.trim treat as white space
WhiteSpaceChars == {" ", "\t", "\r", "\n", "<FEFF>"}
IsSpace(c) == c \in WhiteSpaceChars

\* The characters the regular expression's . does not match
LineTerminators == {"\n", "\r"}

\* The character of s at position i, "" beyond the end of s
At(s, i) == IF i \in 1..Len(s) THEN s[i] ELSE ""

\* String.prototype.trim
Trim(s) ==
  LET inked == {i \in 1..Len(s) : ~IsSpace(s[i])}
  IN IF inked = {} THEN <<>> ELSE SubSeq(s, Min(inked), Max(inked))

\* String.prototype.split(sep) for a one-character separator
RECURSIVE Split(_, _)
Split(s, sep) ==
  LET at == {i \in 1..Len(s) : s[i] = sep}
  IN IF at = {} THEN <<s>>
     ELSE <<SubSeq(s, 1, Min(at) - 1)>> \o Split(SubSeq(s, Min(at) + 1, Len(s)), sep)

\* String.prototype.includes
Includes(s, pattern) ==
  \E i \in 0..(Len(s) - Len(pattern)) :
    \A k \in 1..Len(pattern) : s[i + k] = pattern[k]

\* parseInt(p, 10) of a run of decimal digits
RECURSIVE ParseInt(_)
ParseInt(p) ==
  IF p = <<>> THEN 0
  ELSE 10 * ParseInt(SubSeq(p, 1, Len(p) - 1)) + DigitValue(p[Len(p)])

\* Number of consecutive digits of s from position i on: the greedy \d*
DigitRun(s, i) ==
  LET stops == {j \in i..Len(s) : ~IsDigit(s[j])}
  IN IF i > Len(s) THEN 0
     ELSE IF stops = {} THEN Len(s) - i + 1 ELSE Min(stops) - i

\* The position after the white space of s that starts at i: the greedy \s*
SkipSpaces(s, i) ==
  LET stops == {j \in i..Len(s) : ~IsSpace(s[j])}
  IN IF i > Len(s) THEN i
     ELSE IF stops = {} THEN Len(s) + 1 ELSE Min(stops)

\* \d{1,2}\/\d{1,2}\/\d{2,4} at position i, followed by a comma: the position
\* of the comma, 0 when there is no match
MatchSlashDate(s, i) ==
  LET a == DigitRun(s, i)
      j == i + a + 1
      b == DigitRun(s, j)
      k == j + b + 1
      c == DigitRun(s, k)
  IN IF /\ a \in 1..2 /\ At(s, i + a) = "/"
        /\ b \in 1..2 /\ At(s, j + b) = "/"
        /\ c \in 2..4 /\ At(s, k + c) = ","
     THEN k + c ELSE 0

\* \d{4}-\d{1,2}-\d{1,2} at position i, followed by a comma
MatchIsoDate(s, i) ==
  LET a == DigitRun(s, i)
      j == i + a + 1
      b == DigitRun(s, j)
      k == j + b + 1
      c == DigitRun(s, k)
  IN IF /\ a = 4 /\ At(s, i + a) = "-"
        /\ b \in 1..2 /\ At(s, j + b) = "-"
        /\ c \in 1..2 /\ At(s, k + c) = ","
     THEN k + c ELSE 0

\* \d{1,2}:\d{2}(?::\d{2})?(?:\s*[AP]M)? at position i (without the seconds
\* group when withSeconds is false): the position after the match, 0 when
\* there is none.  Each optional group is taken when it can be; a later
\* failure cannot be repaired by not taking it.
MatchTime(s, i, withSeconds) ==
  LET h == DigitRun(s, i)
      m == i + h + 1
      r == m + 2
      r2 == IF withSeconds /\ At(s, r) = ":" /\ IsDigit(At(s, r + 1))
               /\ IsDigit(At(s, r + 2))
            THEN r + 3 ELSE r
      sp == SkipSpaces(s, r2)
  IN IF ~(h \in 1..2 /\ At(s, i + h) = ":" /\ IsDigit(At(s, m)) /\ IsDigit(At(s, m + 1)))
     THEN 0
     ELSE IF At(s, sp) \in {"A", "P"} /\ At(s, sp + 1) = "M" THEN sp + 2 ELSE r2

\* \s*([^:]+):\s*(.*)$ at position i: the groups 3 and 4, Null when there
\* is no match
MatchNameAndContent(s, i) ==
  LET colons == {j \in i..Len(s) : s[j] = ":"}
      colon == Min(colons)
      nameStart == Min({SkipSpaces(s, i), colon - 1})
      contentStart == SkipSpaces(s, colon + 1)
      content == SubSeq(s, contentStart, Len(s))
  IN IF colons = {} THEN Null
     ELSE IF colon = i THEN Null
     ELSE IF \E k \in 1..Len(content) : content[k] \in LineTerminators THEN Null
     ELSE [kind |-> "groups",
           name |-> SubSeq(s, nameStart, colon - 1),
           content |-> content]

\* The common part of the three expressions after the date: the comma, the
\* time, the closing bracket or the dash, the name and the content
MatchAfterDate(s, dateStart, comma, formatType) ==
  LET timeStart == SkipSpaces(s, comma + 1)
      timeEnd == MatchTime(s, timeStart, formatType # "android")
      dash == SkipSpaces(s, timeEnd)
      rest == IF formatType = "android" THEN MatchNameAndContent(s, dash + 1)
              ELSE MatchNameAndContent(s, timeEnd + 1)
  IN IF comma = 0 \/ timeEnd = 0 THEN Null
     ELSE IF formatType = "android" /\ At(s, dash) # "-" THEN Null
     ELSE IF formatType # "android" /\ At(s, timeEnd) # "]" THEN Null
     ELSE IF rest = Null THEN Null
     ELSE [kind |-> "match", formatType |-> formatType,
           dateStr |-> SubSeq(s, dateStart, comma - 1),
           timeStr |-> SubSeq(s, timeStart, timeEnd - 1),
           name |-> rest.name, content |-> rest.content]

\* line.match(iosRegex)
iosRegex(line) ==
  IF At(line, 1) # "[" THEN Null
  ELSE MatchAfterDate(line, 2, MatchSlashDate(line, 2), "ios")

\* line.match(androidRegex)
androidRegex(line) == MatchAfterDate(line, 1, MatchSlashDate(line, 1), "android")

\* line.match(isoRegex)
isoRegex(line) ==
  IF At(line, 1) # "[" THEN Null
  ELSE MatchAfterDate(line, 2, MatchIsoDate(line, 2), "iso")

\* The three attempts of parseWhatsAppChat, in their order
MatchLine(line) ==
  IF iosRegex(line) # Null THEN iosRegex(line)
  ELSE IF androidRegex(line) # Null THEN androidRegex(line)
  ELSE isoRegex(line)

(***************************************************************************)
(* Date.  A Date built by the parser is kept as the local calendar day it  *)
(* shows, counted from 1970-01-01, and the second of that day.             *)
(***************************************************************************)
\* Day number of the civil date year-month-day, month in 1..12
DaysFromCivil(year, month, day) ==
  LET y == IF month <= 2 THEN year - 1 ELSE year
      era == y \div 400
      yoe == y - era * 400
      mp == IF month > 2 THEN month - 3 ELSE month + 9
      doy == (153 * mp + 2) \div 5 + day - 1
      doe == yoe * 365 + yoe \div 4 - yoe \div 100 + doy
  IN era * 146097 + doe - 719468

IsLeapYear(year) == year % 4 = 0 /\ (year % 100 # 0 \/ year % 400 = 0)

DaysInMonth(year, month) ==
  IF month = 2 THEN (IF IsLeapYear(year) THEN 29 ELSE 28)
  ELSE IF month \in {4, 6, 9, 11} THEN 30 ELSE 31

\* In the zone "dst" the clocks go from 02:00 to 03:00 on this day
GapDay == DaysFromCivil(2024, 3, 10)

\* new Date(year, month, day, hours, minutes, seconds): month counts from 0,
\* a year of 0..99 means 1900 + year, every field out of its range carries
\* into the next one, and a local time the zone skips moves an hour on
NewDate(zone, year, month, day, hours, minutes, seconds) ==
  LET fullYear == IF year \in 0..99 THEN 1900 + year ELSE year
      ym == fullYear + month \div 12
      mn == month % 12
      time == hours * 3600 + minutes * 60 + seconds
      d == DaysFromCivil(ym, mn + 1, 1) + (day - 1) + time \div 86400
      sec == time % 86400
  IN [kind |-> "date",
      day |-> d,
      sec |-> IF zone = "dst" /\ d = GapDay /\ sec \in 7200..10799
              THEN sec + 3600 ELSE sec]

\* timeStr.replace(/\s*(AM|PM|am|pm)/gi, '').trim()
RECURSIVE RemoveMeridiem(_)
RemoveMeridiem(s) ==
  LET IsMeridiemAt(i) == At(s, i) \in {"A", "P", "a", "p"} /\ At(s, i + 1) \in {"M", "m"}
      starts == {i \in 1..Len(s) :
                   \E j \in i..Len(s) :
                     /\ IsMeridiemAt(j)
                     /\ \A k \in i..(j - 1) : IsSpace(s[k])}
      first == Min(starts)
      last == Min({j \in first..Len(s) : IsMeridiemAt(j)}) + 1
  IN IF starts = {} THEN s
     ELSE SubSeq(s, 1, first - 1) \o RemoveMeridiem(SubSeq(s, last + 1, Len(s)))

ToUpperChar(c) ==
  CASE c = "a" -> "A" [] c = "p" -> "P" [] c = "m" -> "M" [] OTHER -> c

\* The 12-hour format of parseTimestamp
AdjustHours_NoMidnight(hours, isAM, isPM) ==
  IF isPM /\ hours # 12 THEN hours + 12 ELSE hours
AdjustHours(hours, isAM, isPM) ==
  IF isPM /\ hours # 12 THEN hours + 12
  ELSE IF isAM /\ hours = 12 THEN 0
  ELSE hours

\* parseTimestamp(dateStr, timeStr, formatType)
parseTimestamp(zone, dateStr, timeStr, formatType) ==
  LET isIso == formatType = "iso" \/ Includes(dateStr, <<"-">>)
      raw == Split(dateStr, IF isIso THEN "-" ELSE "/")
      dateParts == [k \in 1..Len(raw) |-> ParseInt(raw[k])]
      year == IF isIso THEN dateParts[1]
              ELSE IF dateParts[3] < 100 THEN dateParts[3] + 2000 ELSE dateParts[3]
      month == dateParts[2] - 1
      day == IF isIso THEN dateParts[3] ELSE dateParts[1]
      timeUpper == [k \in 1..Len(timeStr) |-> ToUpperChar(timeStr[k])]
      isPM == Includes(timeUpper, <<"P", "M">>)
      isAM == Includes(timeUpper, <<"A", "M">>)
      cleanTime == Trim(RemoveMeridiem(timeStr))
      rawTime == Split(cleanTime, ":")
      timeParts == [k \in 1..Len(rawTime) |-> ParseInt(rawTime[k])]
      hours == AdjustHours(timeParts[1], isAM, isPM)
      seconds == IF Len(timeParts) = 3 THEN timeParts[3] ELSE 0
  IN IF Len(dateParts) # 3
     THEN [kind |-> "error",
           message |-> IF isIso THEN "Invalid ISO date format" ELSE "Invalid date format"]
     ELSE IF Len(timeParts) < 2
     THEN [kind |-> "error", message |-> "Invalid time format"]
     ELSE NewDate(zone, year, month, day, hours, timeParts[2], seconds)

(***************************************************************************)
(* js/parser.js: the classifiers                                           *)
(***************************************************************************)
UpperCaseLetters ==
  <<"A", "B", "C", "D", "E", "F", "G", "H", "I", "J", "K", "L", "M",
    "N", "O", "P", "Q", "R", "S", "T", "U", "V", "W", "X", "Y", "Z">>
LowerCaseLetters ==
  <<"a", "b", "c", "d", "e", "f", "g", "h", "i", "j", "k", "l", "m",
    "n", "o", "p", "q", "r", "s", "t", "u", "v", "w", "x", "y", "z">>

\* String.prototype.toLowerCase
LowerCaseOf ==
  [c \in {UpperCaseLetters[i] : i \in 1..Len(UpperCaseLetters)} |->
     LowerCaseLetters[CHOOSE i \in 1..Len(UpperCaseLetters) : UpperCaseLetters[i] = c]]
ToLowerChar(c) == IF c \in DOMAIN LowerCaseOf THEN LowerCaseOf[c] ELSE c
ToLowerCase(s) == [k \in 1..Len(s) |-> ToLowerChar(s[k])]

\* const mediaIndicators
mediaIndicators ==
  <<\* <attached:
   <<"<", "a", "t", "t", "a", "c", "h", "e", "d", ":">>,
   \* image omitted
   <<"i", "m", "a", "g", "e", " ", "o", "m", "i", "t", "t", "e", "d">>,
   \* video omitted
   <<"v", "i", "d", "e", "o", " ", "o", "m", "i", "t", "t", "e", "d">>,
   \* audio omitted
   <<"a", "u", "d", "i", "o", " ", "o", "m", "i", "t", "t", "e", "d">>,
   \* sticker omitted
   <<"s", "t", "i", "c", "k", "e", "r", " ", "o", "m", "i", "t", "t",
     "e", "d">>,
   \* GIF omitted
   <<"G", "I", "F", " ", "o", "m", "i", "t", "t", "e", "d">>,
   \* document omitted
   <<"d", "o", "c", "u", "m", "e", "n", "t", " ", "o", "m", "i", "t",
     "t", "e", "d">>,
   \* Contact card omitted
   <<"C", "o", "n", "t", "a", "c", "t", " ", "c", "a", "r", "d", " ",
     "o", "m", "i", "t", "t", "e", "d">>,
   \* <Media omitted>
   <<"<", "M", "e", "d", "i", "a", " ", "o", "m", "i", "t", "t", "e",
     "d", ">">>,
   \* <200E>image omitted
   <<"<200E>", "i", "m", "a", "g", "e", " ", "o", "m", "i", "t", "t",
     "e", "d">>,
   \* <200E>video omitted
   <<"<200E>", "v", "i", "d", "e", "o", " ", "o", "m", "i", "t", "t",
     "e", "d">>,
   \* <200E>audio omitted
   <<"<200E>", "a", "u", "d", "i", "o", " ", "o", "m", "i", "t", "t",
     "e", "d">>,
   \* <200E>sticker omitted
   <<"<200E>", "s", "t", "i", "c", "k", "e", "r", " ", "o", "m", "i",
     "t", "t", "e", "d">>,
   \* <200E>GIF omitted
   <<"<200E>", "G", "I", "F", " ", "o", "m", "i", "t", "t", "e", "d">>,
   \* <200E>document omitted
   <<"<200E>", "d", "o", "c", "u", "m", "e", "n", "t", " ", "o", "m",
     "i", "t", "t", "e", "d">>>>

\* isMediaMessage(content)
mediaIndicatorsLower == [k \in 1..Len(mediaIndicators) |-> ToLowerCase(mediaIndicators[k])]
isMediaMessage(content) ==
  LET contentLower == ToLowerCase(content)
  IN \E k \in 1..Len(mediaIndicatorsLower) :
       Includes(contentLower, mediaIndicatorsLower[k])

\* const systemIndicators
systemIndicators ==
  <<\* messages and calls are end-to-end encrypted
   <<"m", "e", "s", "s", "a", "g", "e", "s", " ", "a", "n", "d", " ",
     "c", "a", "l", "l", "s", " ", "a", "r", "e", " ", "e", "n", "d",
     "-", "t", "o", "-", "e", "n", "d", " ", "e", "n", "c", "r", "y",
     "p", "t", "e", "d">>,
   \* created group
   <<"c", "r", "e", "a", "t", "e", "d", " ", "g", "r", "o", "u", "p">>,
   \* added
   <<"a", "d", "d", "e", "d">>,
   \* removed
   <<"r", "e", "m", "o", "v", "e", "d">>,
   \* left
   <<"l", "e", "f", "t">>,
   \* changed the subject
   <<"c", "h", "a", "n", "g", "e", "d", " ", "t", "h", "e", " ", "s",
     "u", "b", "j", "e", "c", "t">>,
   \* changed this group's icon
   <<"c", "h", "a", "n", "g", "e", "d", " ", "t", "h", "i", "s", " ",
     "g", "r", "o", "u", "p", "'", "s", " ", "i", "c", "o", "n">>,
   \* changed the group description
   <<"c", "h", "a", "n", "g", "e", "d", " ", "t", "h", "e", " ", "g",
     "r", "o", "u", "p", " ", "d", "e", "s", "c", "r", "i", "p", "t",
     "i", "o", "n">>,
   \* you deleted this message
   <<"y", "o", "u", " ", "d", "e", "l", "e", "t", "e", "d", " ", "t",
     "h", "i", "s", " ", "m", "e", "s", "s", "a", "g", "e">>,
   \* this message was deleted
   <<"t", "h", "i", "s", " ", "m", "e", "s", "s", "a", "g", "e", " ",
     "w", "a", "s", " ", "d", "e", "l", "e", "t", "e", "d">>,
   \* security code changed
   <<"s", "e", "c", "u", "r", "i", "t", "y", " ", "c", "o", "d", "e",
     " ", "c", "h", "a", "n", "g", "e", "d">>,
   \* joined using this group's invite link
   <<"j", "o", "i", "n", "e", "d", " ", "u", "s", "i", "n", "g", " ",
     "t", "h", "i", "s", " ", "g", "r", "o", "u", "p", "'", "s", " ",
     "i", "n", "v", "i", "t", "e", " ", "l", "i", "n", "k">>,
   \* missed voice call
   <<"m", "i", "s", "s", "e", "d", " ", "v", "o", "i", "c", "e", " ",
     "c", "a", "l", "l">>,
   \* missed video call
   <<"m", "i", "s", "s", "e", "d", " ", "v", "i", "d", "e", "o", " ",
     "c", "a", "l", "l">>,
   \* voice call
   <<"v", "o", "i", "c", "e", " ", "c", "a", "l", "l">>,
   \* video call
   <<"v", "i", "d", "e", "o", " ", "c", "a", "l", "l">>,
   \* waiting for this message
   <<"w", "a", "i", "t", "i", "n", "g", " ", "f", "o", "r", " ", "t",
     "h", "i", "s", " ", "m", "e", "s", "s", "a", "g", "e">>,
   \* trying to call you
   <<"t", "r", "y", "i", "n", "g", " ", "t", "o", " ", "c", "a", "l",
     "l", " ", "y", "o", "u">>,
   \* called you
   <<"c", "a", "l", "l", "e", "d", " ", "y", "o", "u">>,
   \* tap to call back
   <<"t", "a", "p", " ", "t", "o", " ", "c", "a", "l", "l", " ", "b",
     "a", "c", "k">>,
   \* call back
   <<"c", "a", "l", "l", " ", "b", "a", "c", "k">>>>

\* The characters of the class [\u200B-\u200F\uFEFF]
ZeroWidthChars == {"<200B>", "<200C>", "<200D>", "<200E>", "<200F>", "<FEFF>"}

\* content.replace(/\s+/g, ' '): every run of white space becomes one space
CollapseSpaces(s) ==
  LET IsKept(i) == ~IsSpace(s[i]) \/ i = 1 \/ ~IsSpace(s[i - 1])
      kept == {i \in 1..Len(s) : IsKept(i)}
      Nth(n) == CHOOSE i \in kept : Cardinality({j \in kept : j <= i}) = n
  IN [n \in 1..Cardinality(kept) |-> IF IsSpace(s[Nth(n)]) THEN " " ELSE s[Nth(n)]]

\* isSystemMessage(content, participant)
isSystemMessage(content, participant) ==
  LET NotZeroWidth(c) == c \notin ZeroWidthChars
      cleanContent == Trim(ToLowerCase(CollapseSpaces(SelectSeq(content, NotZeroWidth))))
      Has(word) == Includes(cleanContent, word)
  IN \/ \E k \in 1..Len(systemIndicators) : Has(systemIndicators[k])
     \/ Has(<<"m", "i", "s", "s", "e", "d">>) /\ Has(<<"c", "a", "l", "l">>)
     \/ /\ Has(<<"v", "o", "i", "c", "e">>) \/ Has(<<"v", "i", "d", "e", "o">>)
        /\ Has(<<"c", "a", "l", "l">>)

(***************************************************************************)
(* js/parser.js: parseWhatsAppChat, one step per iteration of its loop     *)
(***************************************************************************)
\* !fileContent || fileContent.trim().length === 0
IsEmptyContent_Untrimmed(content) == content = <<>>
IsEmptyContent(content) == content = <<>> \/ Trim(content) = <<>>

\* const lines = fileContent.split('\n')
Lines == Split(fileContent, "\n")

CurrentLine_Untrimmed == Lines[lineNo + 1]

\* const line = lines[i].trim()
CurrentLine == Trim(Lines[lineNo + 1])

\* The message a matching line starts
NewMessage(zone, match) ==
  LET content == Trim(match.content)
      participant == Trim(match.name)
  IN [timestamp |-> parseTimestamp(zone, match.dateStr, match.timeStr, match.formatType),
      participant |-> participant,
      content |-> content,
      isSystem |-> isSystemMessage(content, participant),
      isMedia |-> isMediaMessage(content)]

\* The in-progress message after a continuation line
ContinueMessage_Reclassify(current, line) ==
  [current EXCEPT !.content = @ \o <<"\n">> \o line,
                  !.isMedia = isMediaMessage(line)]
ContinueMessage(current, line) ==
  [current EXCEPT !.content = @ \o <<"\n">> \o line,
                  !.isMedia = IF isMediaMessage(line) THEN TRUE ELSE @]

\* messages.push(currentMessage) when there is a current message
Flush(messages, current) ==
  IF current = Null THEN messages ELSE Append(messages, current)

\* The check of the argument and the set-up of the loop
StartParse ==
  /\ parseState = "start"
  /\ IF IsEmptyContent(fileContent)
     THEN /\ parseState' = "threw"
          /\ parseError' = "File content is empty"
     ELSE /\ parseState' = "scanning"
          /\ parseError' = parseError
  /\ lineNo' = 0
  /\ currentMessage' = Null
  /\ parsedMessages' = <<>>
  /\ UNCHANGED <<envVars, indexVars, viewVars, fileContent, origin, lexVars, appVars, uploadVars>>

\* One iteration of the loop over the lines
ParseLine ==
  /\ parseState = "scanning"
  /\ lineNo < Len(Lines)
  /\ LET line == CurrentLine
         match == MatchLine(line)
         started == NewMessage(tz, match)
     IN IF line = <<>>
        THEN UNCHANGED <<currentMessage, parsedMessages, parseState, parseError>>
        ELSE IF match # Null
        THEN IF started.timestamp.kind = "error"
             THEN /\ parseState' = "threw"
                  /\ parseError' = started.timestamp.message
                  /\ parsedMessages' = Flush(parsedMessages, currentMessage)
                  /\ UNCHANGED currentMessage
             ELSE /\ parsedMessages' = Flush(parsedMessages, currentMessage)
                  /\ currentMessage' = started
                  /\ UNCHANGED <<parseState, parseError>>
        ELSE /\ currentMessage' = IF currentMessage = Null THEN Null
                                  ELSE ContinueMessage(currentMessage, line)
             /\ UNCHANGED <<parsedMessages, parseState, parseError>>
  /\ lineNo' = lineNo + 1
  /\ UNCHANGED <<envVars, indexVars, viewVars, fileContent, origin, lexVars, appVars, uploadVars>>

\* After the loop: the last message, the check for no messages, the return
FinishParse ==
  /\ parseState = "scanning"
  /\ lineNo = Len(Lines)
  /\ parsedMessages' = Flush(parsedMessages, currentMessage)
  /\ IF Len(parsedMessages') = 0
     THEN /\ parseState' = "threw"
          /\ parseError' = "No valid messages found in file"
     ELSE /\ parseState' = "returned"
          /\ parseError' = parseError
  /\ UNCHANGED <<envVars, indexVars, viewVars, fileContent, lineNo, currentMessage,
                 origin, lexVars, appVars, uploadVars>>

(***************************************************************************)
(* Transcripts: every text of at most MaxLines lines of LinePool, two      *)
(* texts of white space, and the one-line transcripts built from a tuple.  *)
(***************************************************************************)
MaxLines == 3

LinePool ==
  {\* [05/01/2024, 10:30:00] Alice: look
   <<"[", "0", "5", "/", "0", "1", "/", "2", "0", "2", "4", ",", " ",
     "1", "0", ":", "3", "0", ":", "0", "0", "]", " ", "A", "l", "i",
     "c", "e", ":", " ", "l", "o", "o", "k">>,
   \* 5/1/24, 9:05 PM - Bob: image omitted
   <<"5", "/", "1", "/", "2", "4", ",", " ", "9", ":", "0", "5", " ",
     "P", "M", " ", "-", " ", "B", "o", "b", ":", " ", "i", "m", "a",
     "g", "e", " ", "o", "m", "i", "t", "t", "e", "d">>,
   \* <attached: a.jpg>
   <<"<", "a", "t", "t", "a", "c", "h", "e", "d", ":", " ", "a", ".",
     "j", "p", "g", ">">>,
   \* nice
   <<"n", "i", "c", "e">>,
   \* left
   <<"l", "e", "f", "t">>,
   \*  \r
   <<" ", "\r">>,
   \* [32/13/2024, 25:00:00] Alice: hi
   <<"[", "3", "2", "/", "1", "3", "/", "2", "0", "2", "4", ",", " ",
     "2", "5", ":", "0", "0", ":", "0", "0", "]", " ", "A", "l", "i",
     "c", "e", ":", " ", "h", "i">>}

\* Array.prototype.join('\n')
RECURSIVE Join(_)
Join(ls) ==
  IF ls = <<>> THEN <<>>
  ELSE IF Len(ls) = 1 THEN ls[1]
  ELSE ls[1] \o <<"\n">> \o Join(Tail(ls))

FilePool ==
  {Join(ls) : ls \in SeqsUpTo(LinePool, MaxLines)}
    \cup {<<" ", "\n", "\t", "\r", "\n">>, <<"<FEFF>", "\n">>}

\* Number.prototype.toString and String.prototype.padStart(2, '0')
RECURSIVE NumChars(_)
NumChars(n) ==
  IF n < 10 THEN <<DigitChars[n + 1]>>
  ELSE NumChars(n \div 10) \o <<DigitChars[(n % 10) + 1]>>
Pad2(n) == IF n < 10 THEN <<"0">> \o NumChars(n) ELSE NumChars(n)

MeridiemChars(meridiem) ==
  CASE meridiem = "AM" -> <<" ", "A", "M">>
    [] meridiem = "PM" -> <<" ", "P", "M">>
    [] OTHER -> <<>>

\* The line of a grammar for a tuple t, written in style st:
\*   ios      [D/M/Y, H:MM[:SS][ AM|PM]] Name: Content
\*   android  D/M/Y, H:MM[ AM|PM] - Name: Content
\*   iso      [Y-M-D, H:MM[:SS][ AM|PM]] Name: Content
FormatLine(t, st) ==
  LET Two(n) == IF st.padded THEN Pad2(n) ELSE NumChars(n)
      year == IF st.shortYear THEN Pad2(t.year % 100) ELSE NumChars(t.year)
      date == IF st.grammar = "iso"
              THEN year \o <<"-">> \o Two(t.month) \o <<"-">> \o Two(t.day)
              ELSE Two(t.day) \o <<"/">> \o Two(t.month) \o <<"/">> \o year
      time == Two(t.hour) \o <<":">> \o Pad2(t.minute)
                \o (IF st.seconds THEN <<":">> \o Pad2(t.second) ELSE <<>>)
                \o MeridiemChars(t.meridiem)
      tail == t.participant \o <<":", " ">> \o t.content
  IN IF st.grammar = "android" THEN date \o <<",", " ">> \o time \o <<" ", "-", " ">> \o tail
     ELSE <<"[">> \o date \o <<",", " ">> \o time \o <<"]", " ">> \o tail

\* Dates, real ones and 32/13; times of day, real ones, 25:00 and 15:00 PM
DatePool == {<<2024, 1, 5>>, <<2024, 12, 31>>, <<1999, 2, 28>>, <<2024, 3, 10>>,
             <<2024, 13, 32>>}
TimePool == {<<0, 0, 0, "">>, <<23, 59, 59, "">>, <<2, 30, 7, "">>,
             <<12, 0, 0, "AM">>, <<12, 30, 0, "PM">>, <<1, 5, 9, "AM">>,
             <<11, 59, 30, "PM">>, <<25, 0, 0, "">>, <<15, 0, 0, "PM">>}
NamePool == {<<"A", "n", "n">>, <<" ", "B", "o", " ", "B", " ">>}
ContentPool == {<<"h", "i">>, <<"a", ":", " ", "b", " ">>, <<>>}

TuplePool ==
  {[year |-> d[1], month |-> d[2], day |-> d[3],
    hour |-> t[1], minute |-> t[2], second |-> t[3], meridiem |-> t[4],
    participant |-> n, content |-> c] :
     d \in DatePool, t \in TimePool, n \in NamePool, c \in ContentPool}

\* The ways of writing a tuple: the grammar, zero-padded or not, the year
\* in two digits (slash dates of 2000..2099), the seconds (bracketed forms)
StylesOf(t) ==
  {st \in [grammar : {"ios", "android", "iso"}, padded : BOOLEAN,
           shortYear : BOOLEAN, seconds : BOOLEAN] :
     /\ st.shortYear => (st.grammar # "iso" /\ t.year \in 2000..2099)
     /\ st.seconds => st.grammar # "android"}

InitParser ==
  /\ tz \in {"fixed", "dst"}
  /\ scorer = TRUE
  /\ IdleIndex
  /\ IdleLex
  /\ IdleApp
  /\ \/ fileContent \in FilePool /\ origin = Null
     \/ \E t \in TuplePool : \E st \in StylesOf(t) :
          /\ fileContent = FormatLine(t, st)
          /\ origin = [kind |-> "tuple", tuple |-> t, style |-> st]
  /\ lineNo = 0
  /\ currentMessage = Null
  /\ parsedMessages = <<>>
  /\ parseState = "start"
  /\ parseError = ""

NextParser ==
  \/ StartParse
  \/ ParseLine
  \/ FinishParse

SpecParser == InitParser /\ [][NextParser]_vars

(***************************************************************************)
(* Properties of the parser                                                *)
(***************************************************************************)
Finished == parseState \in {"returned", "threw"}

\* The messages pushed so far and the one in progress
MessagesInHand == Flush(parsedMessages, currentMessage)

\* A step of the loop over a continuation line of the message in progress
ContinuationStep ==
  /\ parseState = "scanning"
  /\ lineNo < Len(Lines)
  /\ lineNo' = lineNo + 1
  /\ currentMessage # Null
  /\ CurrentLine # <<>>
  /\ MatchLine(CurrentLine) = Null

\* The media test over the first-line content and each continuation line
AnyLineIsMedia(message) ==
  LET pieces == Split(message.content, "\n")
  IN \E k \in 1..Len(pieces) : isMediaMessage(pieces[k])

\* C3: a continuation line never turns isMedia from true to false, turns it
\* from false to true exactly when that line alone holds a media marker, and
\* the isMedia of every message is the OR of the media test over its
\* first-line content and each of its continuation lines.
C3_MediaFlagMonotone ==
  /\ [][ContinuationStep =>
          /\ currentMessage.isMedia => currentMessage'.isMedia
          /\ ~currentMessage.isMedia =>
               (currentMessage'.isMedia <=> isMediaMessage(CurrentLine))]_vars
  /\ [](\A k \in 1..Len(MessagesInHand) :
          MessagesInHand[k].isMedia <=> AnyLineIsMedia(MessagesInHand[k]))

\* C3 witness: a returned message whose first line is not media, whose
\* second line is, and whose third line is not: the flag went up and stayed
C3_Witness ==
  /\ parseState = "returned"
  /\ \E k \in 1..Len(parsedMessages) :
       LET pieces == Split(parsedMessages[k].content, "\n")
       IN /\ Len(pieces) = 3
          /\ ~isMediaMessage(pieces[1])
          /\ isMediaMessage(pieces[2])
          /\ ~isMediaMessage(pieces[3])
          /\ parsedMessages[k].isMedia

\* The hour of the day a tuple's time denotes
Hour24(t) ==
  IF t.meridiem = "PM" /\ t.hour # 12 THEN t.hour + 12
  ELSE IF t.meridiem = "AM" /\ t.hour = 12 THEN 0
  ELSE t.hour

\* A tuple of a real date, a real time of day that the host's zone does not
\* skip, a name without a colon and a one-line content
ValidTuple(zone, t) ==
  /\ t.month \in 1..12
  /\ t.day \in 1..DaysInMonth(t.year, t.month)
  /\ IF t.meridiem = "" THEN t.hour \in 0..23 ELSE t.hour \in 1..12
  /\ t.minute \in 0..59
  /\ t.second \in 0..59
  /\ ~(zone = "dst" /\ DaysFromCivil(t.year, t.month, t.day) = GapDay /\ Hour24(t) = 2)
  /\ Trim(t.participant) # <<>>
  /\ \A k \in 1..Len(t.participant) : t.participant[k] \notin {":", "\n", "\r"}
  /\ \A k \in 1..Len(t.content) : t.content[k] \notin LineTerminators

\* C7: the line of any of the three grammars built from a valid tuple parses
\* to one message with the tuple's date and time (yy read as 2000 + yy, PM
\* adding 12 unless the hour is 12, 12 AM being hour 0), and the tuple's
\* participant and content after trimming.
C7_RoundTrip ==
  (origin # Null /\ Finished /\ ValidTuple(tz, origin.tuple)) =>
    LET t == origin.tuple
    IN /\ parseState = "returned"
       /\ Len(parsedMessages) = 1
       /\ parsedMessages[1].timestamp
            = [kind |-> "date",
               day |-> DaysFromCivil(t.year, t.month, t.day),
               sec |-> Hour24(t) * 3600 + t.minute * 60
                         + (IF origin.style.seconds THEN t.second ELSE 0)]
       /\ parsedMessages[1].participant = Trim(t.participant)
       /\ parsedMessages[1].content = Trim(t.content)

\* C7 witness: the parse of a dash-form line of a valid tuple at 12:00 AM,
\* written with a two-digit year
C7_Witness ==
  /\ origin # Null /\ parseState = "returned"
  /\ ValidTuple(tz, origin.tuple)
  /\ origin.style.grammar = "android" /\ origin.style.shortYear
  /\ origin.tuple.meridiem = "AM" /\ origin.tuple.hour = 12
  /\ parsedMessages[1].timestamp.sec = 0

\* Some line of the transcript matches one of the three grammars
SomeLineMatches ==
  \E k \in 1..Len(Lines) : MatchLine(Trim(Lines[k])) # Null

\* C8: an empty or white-space transcript fails with EmptyInput, a
\* transcript with text but no line of any grammar fails with
\* NoMessagesFound, neither returns messages, and a return carries a
\* non-empty message sequence.
C8_FailsWithoutMessages ==
  Finished =>
    /\ Trim(fileContent) = <<>> =>
         parseState = "threw" /\ parseError = "File content is empty"
    /\ (Trim(fileContent) # <<>> /\ ~SomeLineMatches) =>
         parseState = "threw" /\ parseError = "No valid messages found in file"
    /\ parseState = "threw" => parsedMessages = <<>>
    /\ parseState = "returned" => Len(parsedMessages) > 0

\* C8 witness: a transcript with text and no line of any grammar has failed
C8_Witness ==
  /\ parseState = "threw"
  /\ Trim(fileContent) # <<>>
  /\ ~SomeLineMatches
  /\ lineNo = Len(Lines)

\* A transcript of white space only has failed
C8_WitnessEmpty ==
  /\ parseState = "threw"
  /\ fileContent # <<>>
  /\ Trim(fileContent) = <<>>

\* The date or the time of a matched line does not denote a real date or
\* time of day
IsMalformed(match) ==
  LET isIso == match.formatType = "iso"
      raw == Split(match.dateStr, IF isIso THEN "-" ELSE "/")
      year == ParseInt(IF isIso THEN raw[1] ELSE raw[3])
      month == ParseInt(raw[2])
      day == ParseInt(IF isIso THEN raw[3] ELSE raw[1])
      digits == Split(SelectSeq(match.timeStr, LAMBDA c : IsDigit(c) \/ c = ":"), ":")
      hasMeridiem == Includes(match.timeStr, <<"M">>)
      hour == ParseInt(digits[1])
  IN \/ month \notin 1..12
     \/ day \notin 1..DaysInMonth(year, month)
     \/ IF hasMeridiem THEN hour \notin 1..12 ELSE hour \notin 0..23
     \/ ParseInt(digits[2]) \notin 0..59
     \/ Len(digits) = 3 /\ ParseInt(digits[3]) \notin 0..59

MalformedLines ==
  {k \in 1..Len(Lines) :
     /\ MatchLine(Trim(Lines[k])) # Null
     /\ IsMalformed(MatchLine(Trim(Lines[k])))}

\* C9: when a line matches a grammar and its date or time is malformed
\* (month 13, day 32, hour 25), the parse fails with an error and returns
\* no messages.
C9_MalformedTimestampFails ==
  (Finished /\ MalformedLines # {}) =>
    /\ parseState = "threw"
    /\ parsedMessages = <<>>

\* The divergence: the line [32/13/2024, 25:00:00] Alice: hi is returned as
\* a message of 2025-02-02 01:00:00
C9_Divergence ==
  /\ parseState = "returned"
  /\ MalformedLines = {1}
  /\ Len(parsedMessages) = 1
  /\ parsedMessages[1].timestamp
       = [kind |-> "date", day |-> DaysFromCivil(2025, 2, 2), sec |-> 3600]


\* The lines of the transcript as the loop sees them
TrimmedLine(i) == Trim(Lines[i])

\* Positions of the lines that match a grammar, in input order
MatchingLines ==
  SelectSeq([i \in 1..Len(Lines) |-> i],
            LAMBDA i : TrimmedLine(i) # <<>> /\ MatchLine(TrimmedLine(i)) # Null)

\* Positions of the non-blank lines between the k-th matching line and the
\* next one (or the end of the input)
ContinuationsOf(k) ==
  LET first == MatchingLines[k]
      next == IF k < Len(MatchingLines) THEN MatchingLines[k + 1] ELSE Len(Lines) + 1
  IN SelectSeq([i \in 1..Len(Lines) |-> i],
               LAMBDA i : first < i /\ i < next /\ TrimmedLine(i) # <<>>)

\* The content of the k-th matching line followed by its continuation
\* lines, each after a newline
RECURSIVE AppendLines(_, _)
AppendLines(content, positions) ==
  IF positions = <<>> THEN content
  ELSE AppendLines(content \o <<"\n">> \o TrimmedLine(positions[1]), Tail(positions))

AssembledContent(k) ==
  AppendLines(Trim(MatchLine(TrimmedLine(MatchingLines[k])).content), ContinuationsOf(k))

\* C16: the output has exactly one message per grammar-matching line, in
\* input order; each message has the participant of its line and the
\* content of its line followed, after a newline each, by the non-blank
\* non-matching lines up to the next matching line, blank lines between
\* them or not; lines before the first matching line are dropped; the
\* last message is in the output.
C16_OneMessagePerMatchingLine ==
  parseState = "returned" =>
    /\ Len(parsedMessages) = Len(MatchingLines)
    /\ \A k \in 1..Len(parsedMessages) :
         /\ parsedMessages[k].participant
              = Trim(MatchLine(TrimmedLine(MatchingLines[k])).name)
         /\ parsedMessages[k].content = AssembledContent(k)

\* A continuation line after a blank line is attached to the message, and
\* the last message has been flushed
C16_Witness ==
  /\ parseState = "returned"
  /\ Len(Lines) = 3
  /\ MatchingLines = <<1>>
  /\ TrimmedLine(2) = <<>>
  /\ Len(ContinuationsOf(1)) = 1
  /\ Len(Split(parsedMessages[1].content, "\n")) = 2

\* A line before the first message is dropped, and two matching lines give
\* two messages in input order
C16_WitnessTwo ==
  /\ parseState = "returned"
  /\ MatchingLines = <<2, 3>>
  /\ TrimmedLine(1) # <<>>
  /\ Len(parsedMessages) = 2
  /\ parsedMessages[1].participant # parsedMessages[2].participant

\* C17: a message is tagged isSystem when its complete content, the first
\* line with all its continuation lines, matches a system indicator or a
\* compound heuristic.
C17_SystemDecisionOnFullContent ==
  parseState = "returned" =>
    \A k \in 1..Len(parsedMessages) :
      isSystemMessage(parsedMessages[k].content, parsedMessages[k].participant)
        => parsedMessages[k].isSystem

\* What the code does: the decision is the one of the first line
C17_SystemDecisionOnFirstLine ==
  parseState = "returned" =>
    \A k \in 1..Len(parsedMessages) :
      parsedMessages[k].isSystem
        = isSystemMessage(Split(parsedMessages[k].content, "\n")[1],
                          parsedMessages[k].participant)

\* "look" continued by "left": the content has the indicator "left", the
\* message is not tagged
C17_Divergence ==
  /\ parseState = "returned"
  /\ Len(parsedMessages) = 1
  /\ Split(parsedMessages[1].content, "\n") = <<<<"l", "o", "o", "k">>, <<"l", "e", "f", "t">>>>
  /\ isSystemMessage(parsedMessages[1].content, parsedMessages[1].participant)
  /\ ~parsedMessages[1].isSystem

(***************************************************************************)
(* js/wordAnalysis.js                                                      *)
(***************************************************************************)
\* const STOP_WORDS; "<00E1>" and the like stand for the accented letters
STOP_WORDS ==
  {<<"t", "h", "e">>, <<"b", "e">>, <<"t", "o">>, <<"o", "f">>,
   <<"a", "n", "d">>, <<"a">>, <<"i", "n">>, <<"t", "h", "a", "t">>,
   <<"h", "a", "v", "e">>, <<"i">>, <<"i", "t">>, <<"f", "o", "r">>,
   <<"n", "o", "t">>, <<"o", "n">>, <<"w", "i", "t", "h">>, <<"h", "e">>,
   <<"a", "s">>, <<"y", "o", "u">>, <<"d", "o">>, <<"a", "t">>,
   <<"t", "h", "i", "s">>, <<"b", "u", "t">>, <<"h", "i", "s">>,
   <<"b", "y">>, <<"f", "r", "o", "m">>, <<"t", "h", "e", "y">>,
   <<"w", "e">>, <<"s", "a", "y">>, <<"h", "e", "r">>, <<"s", "h", "e">>,
   <<"o", "r">>, <<"a", "n">>, <<"w", "i", "l", "l">>, <<"m", "y">>,
   <<"o", "n", "e">>, <<"a", "l", "l">>, <<"w", "o", "u", "l", "d">>,
   <<"t", "h", "e", "r", "e">>, <<"t", "h", "e", "i", "r">>,
   <<"w", "h", "a", "t">>, <<"s", "o">>, <<"u", "p">>, <<"o", "u", "t">>,
   <<"i", "f">>, <<"a", "b", "o", "u", "t">>, <<"w", "h", "o">>,
   <<"g", "e", "t">>, <<"w", "h", "i", "c", "h">>, <<"g", "o">>,
   <<"m", "e">>, <<"w", "h", "e", "n">>, <<"m", "a", "k", "e">>,
   <<"c", "a", "n">>, <<"l", "i", "k", "e">>, <<"t", "i", "m", "e">>,
   <<"n", "o">>, <<"j", "u", "s", "t">>, <<"h", "i", "m">>,
   <<"k", "n", "o", "w">>, <<"t", "a", "k", "e">>,
   <<"p", "e", "o", "p", "l", "e">>, <<"i", "n", "t", "o">>,
   <<"y", "e", "a", "r">>, <<"y", "o", "u", "r">>, <<"g", "o", "o", "d">>,
   <<"s", "o", "m", "e">>, <<"c", "o", "u", "l", "d">>,
   <<"t", "h", "e", "m">>, <<"s", "e", "e">>, <<"o", "t", "h", "e", "r">>,
   <<"t", "h", "a", "n">>, <<"t", "h", "e", "n">>, <<"n", "o", "w">>,
   <<"l", "o", "o", "k">>, <<"o", "n", "l", "y">>, <<"c", "o", "m", "e">>,
   <<"i", "t", "s">>, <<"o", "v", "e", "r">>, <<"t", "h", "i", "n", "k">>,
   <<"a", "l", "s", "o">>, <<"b", "a", "c", "k">>,
   <<"a", "f", "t", "e", "r">>, <<"u", "s", "e">>, <<"t", "w", "o">>,
   <<"h", "o", "w">>, <<"o", "u", "r">>, <<"w", "o", "r", "k">>,
   <<"f", "i", "r", "s", "t">>, <<"w", "e", "l", "l">>, <<"w", "a", "y">>,
   <<"e", "v", "e", "n">>, <<"n", "e", "w">>, <<"w", "a", "n", "t">>,
   <<"b", "e", "c", "a", "u", "s", "e">>, <<"a", "n", "y">>,
   <<"t", "h", "e", "s", "e">>, <<"g", "i", "v", "e">>, <<"d", "a", "y">>,
   <<"m", "o", "s", "t">>, <<"u", "s">>, <<"i", "s">>, <<"w", "a", "s">>,
   <<"a", "r", "e">>, <<"b", "e", "e", "n">>, <<"h", "a", "s">>,
   <<"h", "a", "d">>, <<"w", "e", "r", "e">>, <<"s", "a", "i", "d">>,
   <<"d", "i", "d">>, <<"a", "m">>, <<"i", "m">>, <<"d", "o", "n", "t">>,
   <<"t", "h", "a", "t", "s">>, <<"y", "o", "u", "r", "e">>,
   <<"c", "a", "n", "t">>, <<"w", "o", "n", "t">>,
   <<"d", "i", "d", "n", "t">>, <<"d", "o", "e", "s", "n", "t">>,
   <<"w", "a", "s", "n", "t">>, <<"w", "e", "r", "e", "n", "t">>,
   <<"h", "a", "v", "e", "n", "t">>, <<"h", "a", "s", "n", "t">>,
   <<"h", "a", "d", "n", "t">>, <<"w", "o", "u", "l", "d", "n", "t">>,
   <<"s", "h", "o", "u", "l", "d", "n", "t">>,
   <<"c", "o", "u", "l", "d", "n", "t">>, <<"i", "s", "n", "t">>,
   <<"a", "r", "e", "n", "t">>, <<"a", "i", "n", "t">>,
   <<"g", "o", "n", "n", "a">>, <<"w", "a", "n", "n", "a">>,
   <<"g", "o", "t", "t", "a">>, <<"q", "u", "e">>, <<"p", "o", "r">>,
   <<"c", "o", "n">>, <<"c", "o", "m", "o">>, <<"p", "a", "r", "a">>,
   <<"u", "n", "a">>, <<"l", "a", "s">>, <<"l", "o", "s">>,
   <<"d", "e", "l">>, <<"p", "e", "r", "o">>, <<"m", "<00E1>", "s">>,
   <<"m", "a", "s">>, <<"e", "s", "t", "o">>, <<"e", "s", "e">>,
   <<"e", "s", "o">>, <<"e", "s", "t", "a">>, <<"e", "s", "t", "e">>,
   <<"e", "s", "t", "<00E1>">>, <<"s", "o", "n">>, <<"f", "u", "e">>,
   <<"h", "a", "y">>, <<"m", "u", "y">>, <<"s", "i", "n">>,
   <<"s", "o", "b", "r", "e">>, <<"s", "e", "r">>,
   <<"t", "i", "e", "n", "e">>, <<"t", "o", "d", "o">>,
   <<"t", "a", "m", "b", "i", "<00E9>", "n">>,
   <<"t", "a", "m", "b", "i", "e", "n">>, <<"h", "a", "n">>,
   <<"p", "u", "e", "d", "e">>, <<"d", "o", "s">>, <<"b", "i", "e", "n">>,
   <<"d", "o", "n", "d", "e">>, <<"c", "u", "a", "n", "d", "o">>,
   <<"h", "a", "c", "e", "r">>, <<"s", "i", "d", "o">>,
   <<"a", "s", "<00ED>">>, <<"o", "t", "r", "a">>, <<"o", "t", "r", "o">>,
   <<"e", "n", "t", "r", "e">>, <<"h", "a", "s", "t", "a">>,
   <<"d", "e", "s", "d", "e">>, <<"a", "l", "g", "o">>,
   <<"s", "o", "l", "o">>, <<"s", "<00F3>", "l", "o">>,
   <<"m", "i", "s", "m", "o">>, <<"a", "h", "o", "r", "a">>,
   <<"a", "n", "t", "e", "s">>, <<"d", "e", "s", "p", "u", "<00E9>", "s">>,
   <<"d", "e", "s", "p", "u", "e", "s">>, <<"t", "a", "n", "t", "o">>,
   <<"e", "l", "l", "a">>, <<"n", "o", "s">>, <<"l", "e", "s">>,
   <<"s", "u", "s">>, <<"c", "u", "a", "l">>, <<"s", "e", "a">>,
   <<"e", "s", "a">>, <<"e", "s", "t", "a", "s">>,
   <<"e", "s", "t", "o", "s">>, <<"m", "i", "s", "s", "e", "d">>,
   <<"c", "a", "l", "l">>, <<"v", "o", "i", "c", "e">>,
   <<"v", "i", "d", "e", "o">>, <<"t", "a", "p">>,
   <<"w", "a", "i", "t", "i", "n", "g">>,
   <<"m", "e", "s", "s", "a", "g", "e">>,
   <<"d", "e", "l", "e", "t", "e", "d">>,
   <<"a", "t", "t", "a", "c", "h", "e", "d">>,
   <<"o", "m", "i", "t", "t", "e", "d">>, <<"i", "m", "a", "g", "e">>,
   <<"a", "u", "d", "i", "o">>, <<"d", "o", "c", "u", "m", "e", "n", "t">>,
   <<"s", "t", "i", "c", "k", "e", "r">>, <<"g", "i", "f">>}

\* The position after the characters other than white space that start at
\* i: the greedy [^\s]*
SkipNonSpaces(s, i) ==
  LET stops == {j \in i..Len(s) : IsSpace(s[j])}
  IN IF i > Len(s) THEN i
     ELSE IF stops = {} THEN Len(s) + 1 ELSE Min(stops)

\* Length of the match of /https?:\/\/[^\s]+/i at position i, 0 when none
UrlMatchAt(s, i) ==
  LET low(k) == ToLowerChar(At(s, i + k))
      n == IF low(4) = "s" THEN 5 ELSE 4
  IN IF /\ low(0) = "h" /\ low(1) = "t" /\ low(2) = "t" /\ low(3) = "p"
        /\ At(s, i + n) = ":" /\ At(s, i + n + 1) = "/" /\ At(s, i + n + 2) = "/"
        /\ i + n + 3 <= Len(s) /\ ~IsSpace(s[i + n + 3])
     THEN SkipNonSpaces(s, i + n + 3) - i ELSE 0

\* Length of the match of /www\.[^\s]+/i at position i, 0 when none
WwwMatchAt(s, i) ==
  LET low(k) == ToLowerChar(At(s, i + k))
  IN IF /\ low(0) = "w" /\ low(1) = "w" /\ low(2) = "w" /\ At(s, i + 3) = "."
        /\ i + 4 <= Len(s) /\ ~IsSpace(s[i + 4])
     THEN SkipNonSpaces(s, i + 4) - i ELSE 0

\* text.replace(/https?:\/\/[^\s]+/gi, '')
RECURSIVE RemoveUrls(_)
RemoveUrls(s) ==
  LET starts == {i \in 1..Len(s) : UrlMatchAt(s, i) > 0}
      first == Min(starts)
  IN IF starts = {} THEN s
     ELSE SubSeq(s, 1, first - 1)
            \o RemoveUrls(SubSeq(s, first + UrlMatchAt(s, first), Len(s)))

\* text.replace(/www\.[^\s]+/gi, '')
RECURSIVE RemoveWww(_)
RemoveWww(s) ==
  LET starts == {i \in 1..Len(s) : WwwMatchAt(s, i) > 0}
      first == Min(starts)
  IN IF starts = {} THEN s
     ELSE SubSeq(s, 1, first - 1)
            \o RemoveWww(SubSeq(s, first + WwwMatchAt(s, first), Len(s)))

\* \w
WordChars ==
  Digits \cup {"_"}
    \cup {LowerCaseLetters[i] : i \in 1..Len(LowerCaseLetters)}
    \cup {UpperCaseLetters[i] : i \in 1..Len(UpperCaseLetters)}
IsWordChar(c) == c \in WordChars

\* text.replace(/[^\w\s'-]/g, ' ')
ReplacePunctuation(s) ==
  [k \in 1..Len(s) |->
     IF IsWordChar(s[k]) \/ IsSpace(s[k]) \/ s[k] \in {"'", "-"} THEN s[k] ELSE " "]

\* cleanText.split(/\s+/): the runs between white space, with an empty
\* string before leading and after trailing white space
RECURSIVE SplitOnSpaces(_)
SplitOnSpaces(s) ==
  LET spaces == {i \in 1..Len(s) : IsSpace(s[i])}
      first == Min(spaces)
  IN IF spaces = {} THEN <<s>>
     ELSE <<SubSeq(s, 1, first - 1)>>
            \o SplitOnSpaces(SubSeq(s, SkipSpaces(s, first), Len(s)))

\* /^\d+$/.test(word)
IsNumeric(word) == word # <<>> /\ \A k \in 1..Len(word) : IsDigit(word[k])

\* The basic filter of extractWords
basicFilter_AnyLength(word) ==
  /\ ~IsNumeric(word)
  /\ ~Includes(word, <<"h", "t", "t", "p">>)
  /\ ~Includes(word, <<"w", "w", "w">>)
basicFilter(word) ==
  /\ Len(word) > 2
  /\ ~IsNumeric(word)
  /\ ~Includes(word, <<"h", "t", "t", "p">>)
  /\ ~Includes(word, <<"w", "w", "w">>)

\* extractWords(text, filterStopWords)
extractWords(text, filterStopWords) ==
  LET cleanText == ReplacePunctuation(ToLowerCase(RemoveWww(RemoveUrls(text))))
      Keep(word) == basicFilter(word) /\ (filterStopWords => word \notin STOP_WORDS)
  IN IF text = <<>> THEN <<>> ELSE SelectSeq(SplitOnSpaces(cleanText), Keep)

\* The Map wordCounts after wordCounts.set(word, (wordCounts.get(word) || 0)
\* + 1) for each word in turn: its entries in insertion order, the order of
\* the first occurrences, each with the number of occurrences of its word
CountWords(words) ==
  LET IsFirst(k) == \A j \in 1..(k - 1) : words[j] # words[k]
      firsts == SelectSeq([k \in 1..Len(words) |-> k], IsFirst)
  IN [n \in 1..Len(firsts) |->
        [word |-> words[firsts[n]],
         count |-> Cardinality({k \in 1..Len(words) : words[k] = words[firsts[n]]})]]

\* The words of the messages analyzeWordFrequency looks at, in order
RECURSIVE WordsOfMessages(_, _)
WordsOfMessages(messages, filterStopWords) ==
  IF messages = <<>> THEN <<>>
  ELSE LET msg == Head(messages)
           words == IF msg.content # <<>> /\ ~msg.isMedia /\ ~msg.isSystem
                    THEN extractWords(msg.content, filterStopWords) ELSE <<>>
       IN words \o WordsOfMessages(Tail(messages), filterStopWords)

\* .sort((a, b) => b.count - a.count): a stable sort, so an entry comes
\* after the entries of greater count and the earlier entries of equal count
SortByCount(s) ==
  LET Rank(i) == 1 + Cardinality({j \in 1..Len(s) : s[j].count > s[i].count})
                   + Cardinality({j \in 1..(i - 1) : s[j].count = s[i].count})
  IN [p \in 1..Len(s) |-> s[CHOOSE i \in 1..Len(s) : Rank(i) = p]]

\* .slice(0, 20)
TopWordsLimit == 20

\* analyzeWordFrequency(messages, filterStopWords)
analyzeWordFrequency(messages, filterStopWords) ==
  LET wordCounts == CountWords(WordsOfMessages(messages, filterStopWords))
      sorted == SortByCount(wordCounts)
  IN SubSeq(sorted, 1, Min({TopWordsLimit, Len(sorted)}))

(***************************************************************************)
(* The word section of the report (js/ui.js) calls analyzeWordFrequency on *)
(* the messages of a participant, with the stop-word switch on or off.     *)
(***************************************************************************)
MaxWordMsgs == 3

TextPool ==
  {\* I love cats
   <<"I", " ", "l", "o", "v", "e", " ", "c", "a", "t", "s">>,
   \* I LOVE dogs
   <<"I", " ", "L", "O", "V", "E", " ", "d", "o", "g", "s">>,
   \* cats and dogs
   <<"c", "a", "t", "s", " ", "a", "n", "d", " ", "d", "o", "g", "s">>,
   \* awww see http://x.co/a 42 www.b.c
   <<"a", "w", "w", "w", " ", "s", "e", "e", " ", "h", "t", "t", "p",
     ":", "/", "/", "x", ".", "c", "o", "/", "a", " ", "4", "2", " ",
     "w", "w", "w", ".", "b", ".", "c">>,
   \* image omitted
   <<"i", "m", "a", "g", "e", " ", "o", "m", "i", "t", "t", "e", "d">>,
   \* Bob left
   <<"B", "o", "b", " ", "l", "e", "f", "t">>,
   \* abc abd abe abf abg abh abi abj abk abl abm abn abo abp abq abr abs abt abu abv abw
   <<"a", "b", "c", " ", "a", "b", "d", " ", "a", "b", "e", " ", "a",
     "b", "f", " ", "a", "b", "g", " ", "a", "b", "h", " ", "a", "b",
     "i", " ", "a", "b", "j", " ", "a", "b", "k", " ", "a", "b", "l",
     " ", "a", "b", "m", " ", "a", "b", "n", " ", "a", "b", "o", " ",
     "a", "b", "p", " ", "a", "b", "q", " ", "a", "b", "r", " ", "a",
     "b", "s", " ", "a", "b", "t", " ", "a", "b", "u", " ", "a", "b",
     "v", " ", "a", "b", "w">>,
   \* Well, it's co-op!!
   <<"W", "e", "l", "l", ",", " ", "i", "t", "'", "s", " ", "c", "o",
     "-", "o", "p", "!", "!">>}

\* A message of the participant, classified by the parser
WordMessage(content) ==
  [timestamp |-> NewDate("fixed", 2024, 0, 5, 10, 30, 0),
   participant |-> <<"A", "n", "n">>,
   content |-> content,
   isSystem |-> isSystemMessage(content, <<"A", "n", "n">>),
   isMedia |-> isMediaMessage(content)]

WordMessagePool == {WordMessage(text) : text \in TextPool}

InitWords ==
  /\ tz = "fixed"
  /\ scorer = TRUE
  /\ IdleIndex
  /\ IdleParser
  /\ IdleApp
  /\ \E messages \in SeqsUpTo(WordMessagePool, MaxWordMsgs), flag \in BOOLEAN :
       wordInput = [kind |-> "input", messages |-> messages, filterStopWords |-> flag]
  /\ topWords = NoOut

AnalyzeWordFrequency ==
  /\ wordInput # Null
  /\ topWords' = [kind |-> "words",
                  table |-> analyzeWordFrequency(wordInput.messages,
                                                 wordInput.filterStopWords)]
  /\ UNCHANGED <<envVars, indexVars, viewVars, parserVars, wordInput, appVars, uploadVars>>

NextWords == AnalyzeWordFrequency

SpecWords == InitWords /\ [][NextWords]_vars

(***************************************************************************)
(* Properties of the word frequencies                                      *)
(***************************************************************************)
\* The lowercased tokens of the non-media, non-system messages, in order
RECURSIVE TokensOf(_)
TokensOf(messages) ==
  IF messages = <<>> THEN <<>>
  ELSE LET msg == Head(messages)
           tokens == IF msg.isMedia \/ msg.isSystem THEN <<>>
                     ELSE SplitOnSpaces(ReplacePunctuation(ToLowerCase(
                            RemoveWww(RemoveUrls(msg.content)))))
       IN tokens \o TokensOf(Tail(messages))

\* Dropped always: length <= 2 and purely numeric; stop words with the flag
KeptAsStated(token) ==
  /\ Len(token) > 2
  /\ ~IsNumeric(token)
  /\ wordInput.filterStopWords => token \notin STOP_WORDS

\* Dropped always as well: tokens that contain "http" or "www"
KeptWithUrlFilter(token) ==
  /\ KeptAsStated(token)
  /\ ~Includes(token, <<"h", "t", "t", "p">>)
  /\ ~Includes(token, <<"w", "w", "w">>)

\* table is the top of the frequency table of the token sequence kept: one
\* entry per word with its number of occurrences, by descending count and
\* then by first occurrence, cut after the 20 first
IsTopOf(table, kept) ==
  LET words == {kept[k] : k \in 1..Len(kept)}
      Occurrences(w) == Cardinality({k \in 1..Len(kept) : kept[k] = w})
      FirstAt(w) == Min({k \in 1..Len(kept) : kept[k] = w})
      Before(a, b) ==
        \/ Occurrences(a) > Occurrences(b)
        \/ Occurrences(a) = Occurrences(b) /\ FirstAt(a) < FirstAt(b)
      listed == {table[k].word : k \in 1..Len(table)}
  IN /\ Len(table) = Min({20, Cardinality(words)})
     /\ \A k \in 1..Len(table) :
          table[k].word \in words /\ table[k].count = Occurrences(table[k].word)
     /\ \A i \in 1..Len(table) : \A j \in (i + 1)..Len(table) :
          Before(table[i].word, table[j].word)
     /\ \A w \in words \ listed : \A k \in 1..Len(table) : Before(table[k].word, w)

\* The example: "I love cats", "I LOVE dogs", "cats and dogs", filter off
IsExampleInput ==
  /\ ~wordInput.filterStopWords
  /\ Len(wordInput.messages) = 3
  /\ wordInput.messages[1].content
       = <<"I", " ", "l", "o", "v", "e", " ", "c", "a", "t", "s">>
  /\ wordInput.messages[2].content
       = <<"I", " ", "L", "O", "V", "E", " ", "d", "o", "g", "s">>
  /\ wordInput.messages[3].content
       = <<"c", "a", "t", "s", " ", "a", "n", "d", " ", "d", "o", "g", "s">>

CountIn(table, word) ==
  LET at == {k \in 1..Len(table) : table[k].word = word}
  IN IF at = {} THEN 0 ELSE table[Min(at)].count

ExampleHolds ==
  IsExampleInput =>
    /\ CountIn(topWords.table, <<"c", "a", "t", "s">>) = 2
    /\ CountIn(topWords.table, <<"d", "o", "g", "s">>) = 2
    /\ CountIn(topWords.table, <<"l", "o", "v", "e">>) = 2
    /\ CountIn(topWords.table, <<"i">>) = 0
    /\ CountIn(topWords.table, <<"a", "n", "d">>) = 1

\* C10 as stated: only tokens of length <= 2, numeric tokens and (with the
\* flag) stop words are dropped, every other token occurrence is counted,
\* and the result is the top 20 by count, ties by first occurrence.
C10_TopWordsAsStated ==
  topWords # NoOut =>
    /\ IsTopOf(topWords.table, SelectSeq(TokensOf(wordInput.messages), KeptAsStated))
    /\ ExampleHolds

\* C10 amended: tokens that contain "http" or "www" are always dropped too;
\* the rest of the statement and the example stand.
C10_TopWords ==
  topWords # NoOut =>
    /\ IsTopOf(topWords.table,
               SelectSeq(TokensOf(wordInput.messages), KeptWithUrlFilter))
    /\ ExampleHolds

\* C10 witness: a result cut to 20 entries, from an input with a tie and
\* with the token "awww"
C10_Witness ==
  /\ topWords # NoOut
  /\ Len(topWords.table) = 20
  /\ topWords.table[1].count = 2 /\ topWords.table[2].count = 2
  /\ \E k \in 1..Len(TokensOf(wordInput.messages)) :
       TokensOf(wordInput.messages)[k] = <<"a", "w", "w", "w">>

\* The example of C10 has been analyzed
C10_ExampleReached == topWords # NoOut /\ IsExampleInput


(***************************************************************************)
(* js/app.js: the date range filter of the report.  A filter {from, to}    *)
(* always has from at local 00:00:00.000 and to at local 23:59:59.999 of   *)
(* a calendar day (setHours), so it is kept as the two calendar days,      *)
(* counted like the days of the index; a message lies between from and to  *)
(* exactly when its local calendar day lies between the two days.          *)
(***************************************************************************)
\* The day of the model that is the civil day number civilDay: the day
\* MonthStartDay is 2024-02-01
ModelDay(civilDay) == civilDay - DaysFromCivil(2024, 2, 1) + MonthStartDay

\* new Date("YYYY-MM-DD") is midnight UTC of that day; the local calendar day
\* of that instant, which setHours then keeps, is the day before in a zone
\* west of Greenwich (tz = "west") and the day itself otherwise
ParseDateOnly(zone, day) == IF zone = "west" THEN day - 1 ELSE day

\* msg.timestamp >= currentDateFilter.from && msg.timestamp <= currentDateFilter.to
InFilter(zone, filter, msg) ==
  /\ filter.from <= ToDateString(zone, msg.timestamp)
  /\ ToDateString(zone, msg.timestamp) <= filter.to

\* The ChatData whose messages renderWithDateFilter filters: chatData
FilterBase_Shown(base, view) == view
FilterBase(base, view) == base

\* renderWithDateFilter(): what the report shows afterwards and how it ended
renderWithDateFilter(zone, c, filter, view) ==
  IF filter = Null THEN [shown |-> c, result |-> "rendered"]
  ELSE LET filteredMessages ==
             SelectSeq(FilterBase(c, view).messages, LAMBDA msg : InFilter(zone, filter, msg))
       IN IF Len(filteredMessages) = 0
          THEN [shown |-> view, result |-> "error"]
          ELSE [shown |-> calculateAllStatistics(
                            loadMessages(zone, NewChatData, filteredMessages)),
                result |-> "rendered"]

\* The switch of applyPresetFilter: fromDate and toDate as civil day numbers;
\* now gives getFullYear(), getMonth() (from 0) and getDate()
PresetRange(zone, preset, now) ==
  LET today == NewDate(zone, now.year, now.month, now.date, 0, 0, 0).day
  IN CASE preset = "last30days" ->
            [from |-> NewDate(zone, now.year, now.month, now.date - 30, 0, 0, 0).day,
             to |-> today]
       [] preset = "last3months" ->
            [from |-> NewDate(zone, now.year, now.month - 3, now.date, 0, 0, 0).day,
             to |-> today]
       [] preset = "thisyear" ->
            [from |-> NewDate(zone, now.year, 0, 1, 0, 0, 0).day, to |-> today]
       [] OTHER ->
            [from |-> NewDate(zone, now.year - 1, 0, 1, 0, 0, 0).day,
             to |-> NewDate(zone, now.year - 1, 11, 31, 0, 0, 0).day]

\* if (fromDate < chatStart) fromDate = new Date(chatStart);
\* if (toDate > chatEnd) toDate = new Date(chatEnd); then setHours on both
ClampToChat(zone, c, range) ==
  [from |-> Max({ModelDay(range.from), ToDateString(zone, c.metadata.startDate)}),
   to |-> Min({ModelDay(range.to), ToDateString(zone, c.metadata.endDate)})]

\* The filter of applyWeekendsFilter: the messages of Saturdays and Sundays
HasWeekendMessages(zone, c) ==
  \E i \in 1..Len(c.messages) : GetDay(zone, c.messages[i].timestamp) \in {0, 6}

(***************************************************************************)
(* The report with its date filter: a file is analysed, then the custom    *)
(* filter, the presets and the reset button are used in any order.         *)
(***************************************************************************)
MaxAppMsgs == 2
MaxAppDay == 3

AppPool ==
  {Message(0, "Alice", FALSE, FALSE, 3),
   Message(Hour, "Bob", FALSE, FALSE, 10),
   Message(Hour + Second, "Bob", FALSE, FALSE, 10),
   Message(Day + Hour, "Alice", FALSE, FALSE, 3),
   Message(MaxAppDay * Day, "Bob", FALSE, FALSE, 10)}

\* The values of the two date inputs: empty, or a day
DateValues ==
  {[kind |-> "empty"]} \cup {[kind |-> "date", day |-> d] : d \in 0..MaxAppDay}

Presets == {"last30days", "last3months", "thisyear", "lastyear", "weekends"}

\* The days on which the report is used
NowPool ==
  {[year |-> 2024, month |-> 1, date |-> 3],
   [year |-> 2024, month |-> 2, date |-> 31],
   [year |-> 2025, month |-> 0, date |-> 10]}

Ended(handler, result) == [handler |-> handler, result |-> result]

\* handleFile(file), from the parsed messages on: build the index, calculate
\* the statistics, render
HandleFile ==
  /\ chat = NoChat
  /\ \E n \in 1..MaxAppMsgs : \E messages \in [1..n -> AppPool] :
       /\ chat' = calculateAllStatistics(loadMessages(tz, NewChatData, messages))
       /\ upload' = messages
  /\ loads' = 1
  /\ runs' = 1
  /\ shown' = chat'
  /\ handlerResult' = Ended("handleFile", "rendered")
  /\ UNCHANGED <<envVars, attrib, viewVars, parserVars, lexVars, currentDateFilter, uploadVars>>

\* applyDateFilter()
ApplyDateFilter ==
  /\ chat # NoChat
  /\ \E fromValue \in DateValues, toValue \in DateValues :
       IF fromValue.kind = "empty" \/ toValue.kind = "empty"
       THEN /\ handlerResult' = Ended("applyDateFilter", "error")
            /\ UNCHANGED <<currentDateFilter, shown>>
       ELSE LET filter == [from |-> ParseDateOnly(tz, fromValue.day),
                           to |-> ParseDateOnly(tz, toValue.day)]
                after == renderWithDateFilter(tz, chat, filter, shown)
            IN IF filter.from > filter.to
               THEN /\ handlerResult' = Ended("applyDateFilter", "error")
                    /\ UNCHANGED <<currentDateFilter, shown>>
               ELSE /\ currentDateFilter' = filter
                    /\ shown' = after.shown
                    /\ handlerResult' = Ended("applyDateFilter", after.result)
  /\ UNCHANGED <<envVars, indexVars, viewVars, parserVars, lexVars, uploadVars>>

\* resetDateFilter()
ResetDateFilter ==
  /\ chat # NoChat
  /\ currentDateFilter' = Null
  /\ shown' = chat
  /\ handlerResult' = Ended("resetDateFilter", "rendered")
  /\ UNCHANGED <<envVars, indexVars, viewVars, parserVars, lexVars, uploadVars>>

\* applyPresetFilter(preset).  The handler ends with a call of reprocessChat,
\* an identifier no module of the program declares: in module code the call
\* throws a ReferenceError after currentDateFilter was assigned.
ApplyPresetFilter ==
  /\ chat # NoChat
  /\ \E preset \in Presets, now \in NowPool :
       IF preset = "weekends" /\ ~HasWeekendMessages(tz, chat)
       THEN /\ handlerResult' = Ended("applyPresetFilter", "returned")
            /\ UNCHANGED <<currentDateFilter, shown>>
       ELSE LET name == IF preset = "weekends" THEN "last30days" ELSE preset
            IN /\ currentDateFilter' = ClampToChat(tz, chat, PresetRange(tz, name, now))
               /\ handlerResult' = Ended("applyPresetFilter", "threw")
               /\ UNCHANGED shown
  /\ UNCHANGED <<envVars, indexVars, viewVars, parserVars, lexVars, uploadVars>>

InitApp ==
  /\ tz \in {"fixed", "west"}
  /\ InitStats

NextApp ==
  \/ HandleFile
  \/ ApplyDateFilter
  \/ ResetDateFilter
  \/ ApplyPresetFilter

SpecApp == InitApp /\ [][NextApp]_vars

\* The statistics of the messages of the upload that lie inside filter
StatisticsInside(filter) ==
  calculateAllStatistics(
    loadMessages(tz, NewChatData,
                 SelectSeq(upload, LAMBDA msg : InFilter(tz, filter, msg))))

\* C14: after a date preset was chosen the handler has ended without an
\* error, and the report shows the statistics of the messages inside the
\* filter, an index built afresh over them.
C14_PresetUpdatesStatistics ==
  handlerResult.handler = "applyPresetFilter" =>
    /\ handlerResult.result # "threw"
    /\ (handlerResult.result = "rendered" /\ currentDateFilter # Null) =>
         shown = StatisticsInside(currentDateFilter)

\* What the code does: the filter is set to the clamped range, the handler
\* throws, and the report goes on showing what it showed
C14_PresetLeavesReport ==
  [][ApplyPresetFilter => shown' = shown]_vars

\* A custom filter of one day was on display when "last 30 days" was chosen:
\* the filter now spans the whole chat, the report still shows the one day
C14_Divergence ==
  /\ handlerResult = Ended("applyPresetFilter", "threw")
  /\ currentDateFilter = [from |-> 0, to |-> MaxAppDay]
  /\ Len(shown.messages) < Len(chat.messages)
  /\ StatisticsInside(currentDateFilter) = chat
  /\ shown # chat

\* C15: a custom date filter that was applied shows a fresh index over
\* exactly the messages of the base dataset with from <= timestamp <= to,
\* with the statistics calculated on it, and the base ChatData is still the
\* one built from the upload, whatever filters were applied before.
C15_FilterOverBaseDataset ==
  chat # NoChat =>
    /\ chat = calculateAllStatistics(loadMessages(tz, NewChatData, upload))
    /\ handlerResult = Ended("applyDateFilter", "rendered") =>
         shown = StatisticsInside(currentDateFilter)

\* A second filter, wider than the first one, was applied
C15_Witness ==
  /\ handlerResult = Ended("applyDateFilter", "rendered")
  /\ Len(upload) = 2
  /\ Len(shown.messages) = 1
  /\ currentDateFilter.from = currentDateFilter.to
  /\ shown.participants[1].messageCount = 1
  /\ Len(chat.participants) = 2

(***************************************************************************)
(* js/app.js: the file upload.  handleFile is an async function: it runs   *)
(* to its first await, and each later piece runs as a task of the event    *)
(* loop, between which the handlers of other events may run.               *)
(***************************************************************************)
\* The files a user may hand in: the name, whether the FileReader can read
\* it, and the messages parseWhatsAppChat returns for its content
UploadPool ==
  {[txt |-> FALSE, readable |-> TRUE, messages |-> <<>>],
   [txt |-> TRUE, readable |-> FALSE, messages |-> <<>>],
   [txt |-> TRUE, readable |-> TRUE, messages |-> <<>>],
   [txt |-> TRUE, readable |-> TRUE,
    messages |-> <<Message(0, "Alice", FALSE, FALSE, 3)>>]}

InFlight == {s \in Slots : flights[s].pc # "idle"}

\* resetApp's isProcessing = false
ResetFlag_KeepWhileInFlight(flag) == flag /\ InFlight # {}
ResetFlag(flag) == FALSE

\* handleFile(file) up to its first await
handleFileStart(file) ==
  IF ~file.txt
  THEN /\ handlerResult' = Ended("handleFile", "error")
       /\ UNCHANGED <<isProcessing, flights>>
  ELSE IF isProcessing
  THEN /\ handlerResult' = Ended("handleFile", "returned")
       /\ UNCHANGED <<isProcessing, flights>>
  ELSE /\ Slots \ InFlight # {}
       /\ isProcessing' = TRUE
       /\ flights' = [flights EXCEPT ![Min(Slots \ InFlight)] =
                        [pc |-> "readFileContent", file |-> file]]
       /\ handlerResult' = Ended("handleFile", "awaiting")

\* The change listener of the file input and the drop listener of the drop
\* zone: if (isProcessing) return; handleFile(file)
SelectFile ==
  /\ \E file \in UploadPool :
       IF isProcessing
       THEN /\ handlerResult' = Ended("listener", "returned")
            /\ UNCHANGED <<isProcessing, flights>>
       ELSE handleFileStart(file)
  /\ UNCHANGED <<envVars, indexVars, viewVars, parserVars, lexVars,
                 currentDateFilter, shown, screen>>

\* The catch block of handleFile
CatchError(s) ==
  /\ isProcessing' = FALSE
  /\ flights' = [flights EXCEPT ![s] = NoFlight]
  /\ handlerResult' = Ended("handleFile", "error")

\* await readFileContent(file) settles: reader.onload or reader.onerror
ReadFileContent(s) ==
  /\ flights[s].pc = "readFileContent"
  /\ IF flights[s].file.readable
     THEN /\ flights' = [flights EXCEPT ![s].pc = "parse"]
          /\ UNCHANGED <<isProcessing, handlerResult>>
     ELSE CatchError(s)
  /\ UNCHANGED <<envVars, indexVars, viewVars, parserVars, lexVars,
                 currentDateFilter, shown, screen>>

\* After the first sleep: parseWhatsAppChat(content), messages.length === 0
ParseContent(s) ==
  /\ flights[s].pc = "parse"
  /\ IF Len(flights[s].file.messages) > 0
     THEN /\ flights' = [flights EXCEPT ![s].pc = "build"]
          /\ UNCHANGED <<isProcessing, handlerResult>>
     ELSE CatchError(s)
  /\ UNCHANGED <<envVars, indexVars, viewVars, parserVars, lexVars,
                 currentDateFilter, shown, screen>>

\* After the second sleep: chatData = new ChatData(); loadMessages(messages)
BuildDataModel(s) ==
  /\ flights[s].pc = "build"
  /\ chat' = loadMessages(tz, NewChatData, flights[s].file.messages)
  /\ upload' = flights[s].file.messages
  /\ loads' = 1
  /\ runs' = 0
  /\ flights' = [flights EXCEPT ![s].pc = "calculate"]
  /\ UNCHANGED <<envVars, attrib, viewVars, parserVars, lexVars,
                 appVars, isProcessing, screen>>

\* After the third sleep: calculateAllStatistics(chatData) on the module's
\* chatData (a TypeError when it is null), switchScreen('app'), renderStats,
\* isProcessing = false
CalculateAndRender(s) ==
  /\ flights[s].pc = "calculate"
  /\ IF chat = NoChat
     THEN /\ CatchError(s)
          /\ UNCHANGED <<indexVars, shown, screen>>
     ELSE /\ chat' = calculateAllStatistics(chat)
          /\ runs' = IF runs < MaxRuns THEN runs + 1 ELSE runs
          /\ shown' = chat'
          /\ screen' = "app"
          /\ isProcessing' = FALSE
          /\ flights' = [flights EXCEPT ![s] = NoFlight]
          /\ handlerResult' = Ended("handleFile", "rendered")
          /\ UNCHANGED <<attrib, upload, loads>>
  /\ UNCHANGED <<envVars, viewVars, parserVars, lexVars, currentDateFilter>>

\* resetApp(), the click listener of the new-analysis button
ResetApp ==
  /\ chat' = NoChat
  /\ isProcessing' = ResetFlag(isProcessing)
  /\ currentDateFilter' = Null
  /\ screen' = "upload"
  /\ handlerResult' = Ended("resetApp", "returned")
  /\ UNCHANGED <<envVars, runs, attrib, upload, loads, viewVars, parserVars, lexVars,
                 shown, flights>>

\* A task of the event loop that resumes a suspended handleFile
Resume(s) ==
  \/ ReadFileContent(s)
  \/ ParseContent(s)
  \/ BuildDataModel(s)
  \/ CalculateAndRender(s)

NextUpload ==
  \/ SelectFile
  \/ ResetApp
  \/ \E s \in Slots : Resume(s)

\* The FileReader fires load or error and every timer of sleep fires
SpecUpload ==
  /\ Init
  /\ [][NextUpload]_vars
  /\ \A s \in Slots : WF_vars(Resume(s))

\* C28: at most one handleFile run is in flight, isProcessing is true while
\* one is, and every run ends with isProcessing set to false.
C28_RunsNeverOverlap ==
  /\ [](Cardinality(InFlight) <= 1 /\ (InFlight # {} => isProcessing))
  /\ \A s \in Slots : (flights[s].pc # "idle") ~> (flights[s].pc = "idle")

\* What does hold: a run starts only while the flag is false, and the flag
\* falls only when a run ends or resetApp runs
C28_FlagFallsOnEndOrReset ==
  [][/\ (\E s \in Slots : flights[s].pc = "idle" /\ flights'[s].pc # "idle")
          => (~isProcessing /\ isProcessing')
     /\ (isProcessing /\ ~isProcessing')
          => \/ handlerResult'.handler = "resetApp"
             \/ \E s \in Slots : flights[s].pc # "idle" /\ flights'[s].pc = "idle"]_vars

\* Every run that starts ends
C28_RunsEnd == \A s \in Slots : (flights[s].pc # "idle") ~> (flights[s].pc = "idle")

\* A second run was started after resetApp cleared the flag of the first
C28_Divergence ==
  /\ Cardinality(InFlight) = 2
  /\ isProcessing
  /\ flights[1].pc = "calculate"
  /\ flights[2].pc = "readFileContent"

=============================================================================
